---------------------------- MODULE Spec2Model ----------------------------
(***************************************************************************)
(* Model of the NVC-HH pass execution engine (src/passes/base.py and the   *)
(* four stages in src/passes/).  JSON values are tagged records, a text is *)
(* a sequence of tokens, a dotted field path is the sequence of its        *)
(* segments separated by "." tokens.                                       *)
(***************************************************************************)
EXTENDS Integers, Sequences, FiniteSets, TLC

VARIABLES
    stage,        \* the stage instance whose run_file is invoked (PASS_NAME)
    dataset,      \* which collection of records is on storage at the start
    file,         \* durable record storage: the JSONL collection, in file order
    runs,         \* number of run_file invocations started so far
    pc,           \* position of run_file / process_batch
    batch_size,   \* batch_size argument of the current run
    rows,         \* process_batch: rows (the loaded record objects)
    results,      \* process_batch: results (indices of the objects in rows)
    i,            \* process_batch: start of the current slice (1-based)
    tasks,        \* process_batch: tasks of the current slice
    session,      \* aiohttp.ClientSession of the run
    pre,          \* history: contents of rows when the run started
    called,       \* history: indices of rows for which a request was issued
    sat,          \* history: the rows found already processed
    completed,    \* history: number of run_file invocations that wrote their output
    det,          \* whether the external model answers as a function of the request
    memo,         \* the answers the external model has given, by request
    fn,           \* pure-function harness: the function applied
    arg,          \* pure-function harness: its arguments
    out,          \* pure-function harness: its outcome
    config,       \* orchestrate.main: the loaded configuration
    start_from,   \* orchestrate.main: args.start_from
    pass_i,       \* orchestrate.main: the loop index i over PASS_ORDER
    current_input,\* orchestrate.main: the path the next stage reads
    store,        \* durable storage: the collection under each existing path
    log,          \* history: one entry per stage run that main started
    opc,          \* position of orchestrate.main
    ontologies_dir,  \* storage: the names whose ontology file exists
    prompts_dir,     \* storage: the prompt files that exist
    _ontologies,     \* stage instance: the ontology cache
    _system_prompt,  \* stage instance: the cached instruction string (or None)
    probes,          \* history: the os.path.exists probes of ontology files
    payloads,        \* history: the system message of each request built
    assembled        \* history: number of times the instruction string was built

\* The state of orchestrate.main, and of a stage instance's prompt assembly.
pipeVars == <<config, start_from, pass_i, current_input, store, log, opc>>
ontoVars == <<ontologies_dir, prompts_dir, _ontologies, _system_prompt, probes,
              payloads, assembled>>

vars == <<stage, dataset, file, runs, pc, batch_size, rows, results, i, tasks,
          session, pre, called, sat, completed, det, memo, fn, arg, out,
          pipeVars, ontoVars>>

-----------------------------------------------------------------------------
(* JSON / Python values *)

None == [t |-> "none"]
Str(s) == [t |-> "str", s |-> s]
Num(n) == [t |-> "num", n |-> n]
Bool(b) == [t |-> "bool", b |-> b]
List(items) == [t |-> "list", items |-> items]
Map(m) == [t |-> "map", m |-> m]

EmptyDict == [k \in {} |-> None]
IsMap(v) == v.t = "map"
IsNone(v) == v.t = "none"

\* Outcome of a call: a returned value or a raised exception.
Ret(v) == [exc |-> "none", val |-> v]
Raise(e) == [exc |-> e, val |-> None]
Raised(r) == r.exc # "none"

Range(s) == {s[k] : k \in DOMAIN s}

\* Python truthiness of a value (`x or y`, `if x`).
Truthy(v) ==
    CASE v.t = "none" -> FALSE
      [] v.t = "str"  -> v.s # <<>>
      [] v.t = "num"  -> v.n # 0
      [] v.t = "bool" -> v.b
      [] v.t = "list" -> v.items # <<>>
      [] v.t = "map"  -> DOMAIN v.m # {}

\* Python `key in obj` for a string key: "yes", "no" or "TypeError".
\* A string is its sequence of words; a key is one word.
Contains(obj, key) ==
    CASE obj.t = "map"  -> IF key \in DOMAIN obj.m THEN "yes" ELSE "no"
      [] obj.t = "str"  -> IF key \in Range(obj.s) THEN "yes" ELSE "no"
      [] obj.t = "list" -> IF Str(<<key>>) \in Range(obj.items) THEN "yes" ELSE "no"
      [] OTHER          -> "TypeError"

\* dict.get(key, default) on a Python dict.
DictGet(m, key, default) == IF key \in DOMAIN m THEN m[key] ELSE default

\* dict[key] = value on a Python dict.
DictSet(m, key, value) == [k \in DOMAIN m \cup {key} |-> IF k = key THEN value ELSE m[k]]

-----------------------------------------------------------------------------
(* Dotted field paths *)

\* The string "ns.field".
Path(ns, field) == <<ns, ".", field>>

\* str.split('.') : the segments between the "." tokens (empty segments are "").
RECURSIVE SplitFrom(_, _)
SplitFrom(path, cur) ==
    IF path = <<>> THEN <<cur>>
    ELSE IF Head(path) = "." THEN <<cur>> \o SplitFrom(Tail(path), "")
    ELSE SplitFrom(Tail(path), Head(path))

Split(path) == SplitFrom(path, "")


-----------------------------------------------------------------------------
(* The four stages: PASS_NAME, OUTPUT_FIELDS *)

Stages == {"observer", "empathizer", "strategist", "critic"}

OutputFieldsOf(cls) ==
    CASE cls = "observer" ->
           << Path("ofnr", "observation"),
              Path("ofnr", "evaluations_detected") >>
      [] cls = "empathizer" ->
           << Path("ofnr", "feelings"),
              Path("ofnr", "need"),
              Path("ofnr", "explicit_needs"),
              Path("ofnr", "implicit_needs"),
              Path("ofnr", "pseudo_feelings_detected"),
              Path("metadata", "emotion_arousal_hint"),
              Path("metadata", "emotion_valence_hint") >>
      [] cls = "strategist" ->
           << Path("ofnr", "explicit_request"),
              Path("ofnr", "implicit_request"),
              Path("ofnr", "implicit_intent"),
              Path("ofnr", "strategy_leakage_detected"),
              Path("ofnr", "translation_notes") >>
      [] cls = "critic" ->
           << Path("safety", "label"),
              Path("safety", "policy_category"),
              Path("safety", "reason"),
              Path("safety", "rewrite_mode"),
              Path("safety", "safe_alternative"),
              Path("safety", "safety_confidence"),
              Path("quality", "ofnr_compliance"),
              Path("quality", "observation_is_nonjudgmental"),
              Path("quality", "pseudo_feeling_translation_quality"),
              Path("quality", "needs_list_match"),
              Path("quality", "strategy_leakage_score"),
              Path("quality", "request_is_actionable"),
              Path("quality", "request_is_noncoercive"),
              Path("quality", "overall_confidence"),
              Path("flags", "error_flags"),
              Path("flags", "warnings"),
              Path("metadata", "somatic_markers") >>

FieldTable == [cls \in Stages |-> OutputFieldsOf(cls)]

\* A faulty declaration in which the observer also lists ofnr.feelings.
OverlappingFields(cls) ==
    IF cls = "observer" THEN Append(FieldTable[cls], Path("ofnr", "feelings"))
    ELSE FieldTable[cls]

OUTPUT_FIELDS(cls) == FieldTable[cls]

-----------------------------------------------------------------------------
(* Field Merge Engine *)

\* _get_nested: walk the keys; `key in obj` and obj[key] are Python's.
RECURSIVE GetWalk(_, _)
GetWalk(obj, keys) ==
    IF keys = <<>> THEN Ret(obj)
    ELSE IF IsNone(obj) THEN Ret(None)
    ELSE LET c == Contains(obj, Head(keys)) IN
         IF c = "TypeError" THEN Raise("TypeError")          \* `key in 5`
         ELSE IF c = "no" THEN Ret(None)
         ELSE IF IsMap(obj) THEN GetWalk(obj.m[Head(keys)], Tail(keys))
         ELSE Raise("TypeError")                              \* "abc"["b"], ["b"]["b"]

_get_nested(obj, path) == GetWalk(obj, Split(path))

\* _set_nested: the walk over keys[:-1] and the final store.  The outcome's
\* val is the object as the call leaves it (also when it raises).
RECURSIVE SetWalk(_, _, _)
SetWalk(obj, keys, value) ==
    IF Len(keys) = 1
    THEN IF IsMap(obj) THEN Ret(Map(DictSet(obj.m, keys[1], value)))
         ELSE [exc |-> "TypeError", val |-> obj]              \* obj[keys[-1]] = value
    ELSE LET key == Head(keys)
             c   == Contains(obj, key) IN
         IF c = "TypeError" THEN [exc |-> "TypeError", val |-> obj]
         ELSE IF ~IsMap(obj) THEN [exc |-> "TypeError", val |-> obj]
         ELSE LET o1  == IF c = "no" THEN DictSet(obj.m, key, Map(EmptyDict)) ELSE obj.m
                  sub == SetWalk(o1[key], Tail(keys), value) IN
              [exc |-> sub.exc, val |-> Map(DictSet(o1, key, sub.val))]

\* A faulty store that replaces the namespace by an object holding only the
\* new field (obj[key] = {} without the `key not in obj` test).
SetWhole(obj, path, value) ==
    IF IsMap(obj) /\ Len(Split(path)) = 2
    THEN Ret(Map(DictSet(obj.m, Split(path)[1],
                         Map(DictSet(EmptyDict, Split(path)[2], value)))))
    ELSE SetWalk(obj, Split(path), value)

\* A faulty store that never creates an intermediate mapping: the value is
\* stored under the last segment of the path in the record itself.
SetFlat(obj, path, value) ==
    IF IsMap(obj)
    THEN Ret(Map(DictSet(obj.m, Split(path)[Len(Split(path))], value)))
    ELSE [exc |-> "TypeError", val |-> obj]

_set_nested(obj, path, value) == SetWalk(obj, Split(path), value)

\* apply_to_row: for field_path in OUTPUT_FIELDS, in order.
RECURSIVE ApplyFields(_, _, _)
ApplyFields(row, parsed, fields) ==
    IF fields = <<>> THEN Ret(row)
    ELSE LET field_path == Head(fields)
             value == DictGet(parsed, field_path, None) IN
         IF ~IsNone(value)
         THEN LET w == _set_nested(row, field_path, value) IN
              IF Raised(w) THEN w ELSE ApplyFields(w.val, parsed, Tail(fields))
         ELSE ApplyFields(row, parsed, Tail(fields))

\* A faulty merge without the `value is not None` test.
RECURSIVE WriteFields(_, _, _)
WriteFields(row, parsed, fields) ==
    IF fields = <<>> THEN Ret(row)
    ELSE LET w == _set_nested(row, Head(fields), DictGet(parsed, Head(fields), None)) IN
         IF Raised(w) THEN w ELSE WriteFields(w.val, parsed, Tail(fields))

ApplyAll(cls, row, parsed) == WriteFields(row, parsed, OUTPUT_FIELDS(cls))

\* A faulty merge that rebuilds the record from its id and input before it
\* writes the update, dropping what other stages have written.
ApplyToBare(cls, row, parsed) ==
    ApplyFields(Map([k \in DOMAIN row.m \cap {"id", "input"} |-> row.m[k]]),
                parsed, OUTPUT_FIELDS(cls))

apply_to_row(cls, row, parsed) == ApplyFields(row, parsed, OUTPUT_FIELDS(cls))

\* _is_already_processed: the loop with its early return.
RECURSIVE AllHaveValues(_, _)
AllHaveValues(row, fields) ==
    IF fields = <<>> THEN Ret(Bool(TRUE))
    ELSE LET value == _get_nested(row, Head(fields)) IN
         IF Raised(value) THEN value
         ELSE IF IsNone(value.val) THEN Ret(Bool(FALSE))
         ELSE AllHaveValues(row, Tail(fields))

\* A faulty test that is content with one field that has a value.
AnyProcessed(cls, row) ==
    Ret(Bool(\E n \in DOMAIN OUTPUT_FIELDS(cls) :
                 /\ ~Raised(_get_nested(row, OUTPUT_FIELDS(cls)[n]))
                 /\ ~IsNone(_get_nested(row, OUTPUT_FIELDS(cls)[n]).val)))

_is_already_processed(cls, row) == AllHaveValues(row, OUTPUT_FIELDS(cls))

-----------------------------------------------------------------------------
(* Texts: a text is a sequence of tokens.  A token is one of the marks      *)
(* "fence" (the three-backquote code fence), "json", " " (white space),    *)
(* "{", "}", a prose word, or one member (key: value) of a JSON object;    *)
(* members that follow each other are comma-separated.                     *)

Tok(c) == [ch |-> c]
Member(k, v) == [ch |-> "pair", k |-> k, v |-> v]

\* str.strip()
RECURSIVE LStrip(_)
LStrip(text) ==
    IF text # <<>> /\ Head(text).ch = " " THEN LStrip(Tail(text)) ELSE text

RECURSIVE RStrip(_)
RStrip(text) ==
    IF text # <<>> /\ text[Len(text)].ch = " "
    THEN RStrip(SubSeq(text, 1, Len(text) - 1)) ELSE text

Strip(text) == RStrip(LStrip(text))

\* \s* from position p: the first position that is not white space.
RECURSIVE SkipWs(_, _)
SkipWs(text, p) ==
    IF p <= Len(text) /\ text[p].ch = " " THEN SkipWs(text, p + 1) ELSE p

SetMin(S) == CHOOSE x \in S : \A y \in S : x <= y
SetMax(S) == CHOOSE x \in S : \A y \in S : x >= y

\* The match of the fenced-block pattern of re.search (a fence, an optional
\* "json", white space, the shortest brace-delimited group, white space, a
\* fence) that starts at position p: <<first, last>> of the group, or <<>>.
FenceMatchAt(text, p) ==
    IF text[p].ch # "fence" THEN <<>>
    ELSE LET q == IF p + 1 <= Len(text) /\ text[p + 1].ch = "json" THEN p + 2 ELSE p + 1
             b == SkipWs(text, q) IN
         IF b > Len(text) \/ text[b].ch # "{" THEN <<>>
         ELSE LET ends == {e \in (b + 1)..Len(text) :
                              /\ text[e].ch = "}"
                              /\ LET r == SkipWs(text, e + 1) IN
                                     r <= Len(text) /\ text[r].ch = "fence"} IN
              IF ends = {} THEN <<>> ELSE <<b, SetMin(ends)>>

\* re.search: the leftmost match, or <<>>.
FenceSearch(text) ==
    LET starts == {p \in 1..Len(text) : FenceMatchAt(text, p) # <<>>} IN
    IF starts = {} THEN <<>> ELSE FenceMatchAt(text, SetMin(starts))

\* The dict of a member list; a repeated key keeps its last value.
RECURSIVE MembersDict(_)
MembersDict(members) ==
    IF members = <<>> THEN EmptyDict
    ELSE LET last == members[Len(members)]
             rest == MembersDict(SubSeq(members, 1, Len(members) - 1)) IN
         DictSet(rest, last.k, last.v)

\* A JSON value nested deeper than the interpreter's recursion limit.
Deep == [t |-> "deep"]

\* json.loads once the opening brace is read: the decoder scans the members
\* from the left and stops at the first token that is not a member it can
\* build.  A member whose value is nested too deep raises RecursionError; the
\* closing brace returns the object if nothing follows it.
JsonObject(body, stops) ==
    IF stops = {} THEN Raise("JSONDecodeError")
    ELSE IF body[SetMin(stops)].ch = "pair" THEN Raise("RecursionError")
    ELSE IF body[SetMin(stops)].ch = "}" /\ SetMin(stops) = Len(body)
         THEN Ret(Map(MembersDict(SubSeq(body, 2, Len(body) - 1))))
         ELSE Raise("JSONDecodeError")

JsonBody(body) ==
    IF body = <<>> \/ body[1].ch # "{" THEN Raise("JSONDecodeError")
    ELSE JsonObject(body, {k \in 2..Len(body) :
                              body[k].ch # "pair" \/ body[k].v = Deep})

\* json.loads: the object, JSONDecodeError, or RecursionError.
json_loads(text) == JsonBody(SelectSeq(text, LAMBDA tk : tk.ch # " "))

\* str.find / str.rfind of a one-character mark (-1: not found).
Find(text, c) ==
    LET at == {p \in 1..Len(text) : text[p].ch = c} IN
    IF at = {} THEN -1 ELSE SetMin(at)

RFind(text, c) ==
    LET at == {p \in 1..Len(text) : text[p].ch = c} IN
    IF at = {} THEN -1 ELSE SetMax(at)


\* except json.JSONDecodeError: pass ... return {}
Caught(r) == IF r.exc = "JSONDecodeError" THEN Ret(Map(EmptyDict)) ELSE r

\* _extract_json, from the second try on: the text between the first "{" and
\* the last "}" as found by str.find and str.rfind, or {}.
LoadBetween(text, start, end) ==
    IF start # -1 /\ end # -1
    THEN Caught(json_loads(SubSeq(text, start, end)))
    ELSE Ret(Map(EmptyDict))

\* _extract_json, from text.strip() on.
LoadStripped(text) ==
    IF text # <<>> /\ text[1].ch = "{" /\ json_loads(text).exc # "JSONDecodeError"
    THEN json_loads(text)
    ELSE LoadBetween(text, Find(text, "{"), RFind(text, "}"))

\* text = json_match.group(1) if json_match
Group1(response, json_match) ==
    IF json_match # <<>> THEN SubSeq(response, json_match[1], json_match[2])
    ELSE response

_extract_json(response) == LoadStripped(Strip(Group1(response, FenceSearch(response))))

-----------------------------------------------------------------------------
(* parse_response of the four stages *)

\* One line of a parse_response result: the flat key, the object the value
\* is read from ("data" or one of data's sub-objects), the key read and the
\* default of the .get call.
Line(path, src, key, dflt) == [path |-> path, src |-> src, key |-> key, dflt |-> dflt]

ParseLinesOf(cls) ==
    CASE cls = "observer" ->
           << Line(Path("ofnr", "observation"), "data", "observation", List(<<>>)),
              Line(Path("ofnr", "evaluations_detected"), "data", "evaluations_detected", List(<<>>)) >>
      [] cls = "empathizer" ->
           << Line(Path("ofnr", "feelings"), "data", "feelings", List(<<>>)),
              Line(Path("ofnr", "need"), "data", "need", List(<<>>)),
              Line(Path("ofnr", "explicit_needs"), "data", "explicit_needs", List(<<>>)),
              Line(Path("ofnr", "implicit_needs"), "data", "implicit_needs", List(<<>>)),
              Line(Path("ofnr", "pseudo_feelings_detected"), "data", "pseudo_feelings_detected", List(<<>>)),
              Line(Path("metadata", "emotion_arousal_hint"), "data", "emotion_arousal_hint", None),
              Line(Path("metadata", "emotion_valence_hint"), "data", "emotion_valence_hint", None) >>
      [] cls = "strategist" ->
           << Line(Path("ofnr", "explicit_request"), "data", "explicit_request", List(<<>>)),
              Line(Path("ofnr", "implicit_request"), "data", "implicit_request", List(<<>>)),
              Line(Path("ofnr", "implicit_intent"), "data", "implicit_intent", None),
              Line(Path("ofnr", "strategy_leakage_detected"), "data", "strategy_leakage_detected", List(<<>>)),
              Line(Path("ofnr", "translation_notes"), "data", "translation_notes", None) >>
      [] cls = "critic" ->
           << Line(Path("safety", "label"), "safety", "label", None),
              Line(Path("safety", "policy_category"), "safety", "policy_category", None),
              Line(Path("safety", "reason"), "safety", "reason", None),
              Line(Path("safety", "rewrite_mode"), "safety", "rewrite_mode", None),
              Line(Path("safety", "safe_alternative"), "safety", "safe_alternative", List(<<>>)),
              Line(Path("safety", "safety_confidence"), "safety", "safety_confidence", None),
              Line(Path("quality", "ofnr_compliance"), "quality", "ofnr_compliance", None),
              Line(Path("quality", "observation_is_nonjudgmental"), "quality", "observation_is_nonjudgmental", None),
              Line(Path("quality", "pseudo_feeling_translation_quality"), "quality", "pseudo_feeling_translation_quality", None),
              Line(Path("quality", "needs_list_match"), "quality", "needs_list_match", None),
              Line(Path("quality", "strategy_leakage_score"), "quality", "strategy_leakage_score", None),
              Line(Path("quality", "request_is_actionable"), "quality", "request_is_actionable", None),
              Line(Path("quality", "request_is_noncoercive"), "quality", "request_is_noncoercive", None),
              Line(Path("quality", "overall_confidence"), "quality", "overall_confidence", None),
              Line(Path("flags", "error_flags"), "flags", "error_flags", List(<<>>)),
              Line(Path("flags", "warnings"), "flags", "warnings", List(<<>>)),
              Line(Path("metadata", "somatic_markers"), "data", "somatic_markers", List(<<>>)) >>

ParseTable == [cls \in Stages |-> ParseLinesOf(cls)]

ParseLines(cls) == ParseTable[cls]

\* The sub-objects a stage's parse_response reads with data.get(name, {}).
SourcesOf(lines) == {lines[k].src : k \in DOMAIN lines} \ {"data"}

SubObjectTable == [cls \in Stages |-> SourcesOf(ParseTable[cls])]

SubObjects(cls) == SubObjectTable[cls]

\* The dict built from data: one key per line, value.get(key, default).
RECURSIVE ParsedDict(_, _, _)
ParsedDict(lines, data, subs) ==
    IF lines = <<>> THEN EmptyDict
    ELSE DictSet(ParsedDict(SubSeq(lines, 1, Len(lines) - 1), data, subs),
                 lines[Len(lines)].path,
                 DictGet(IF lines[Len(lines)].src = "data" THEN data.m
                         ELSE subs[lines[Len(lines)].src].m,
                         lines[Len(lines)].key, lines[Len(lines)].dflt))

\* parse_response after data = self._extract_json(response) and the
\* data.get(name, {}) reads: .get on a sub-object that is not a dict raises.
ParseWith(cls, data, subs) ==
    IF \E name \in DOMAIN subs : ~IsMap(subs[name])
    THEN Raise("AttributeError")
    ELSE [exc |-> "none", val |-> ParsedDict(ParseLines(cls), data, subs)]

ParseData(cls, data) ==
    ParseWith(cls, data,
              [name \in SubObjects(cls) |-> DictGet(data.m, name, Map(EmptyDict))])

\* data = self._extract_json(response): what it raises leaves parse_response.
ParseExtracted(cls, r) == IF Raised(r) THEN Raise(r.exc) ELSE ParseData(cls, r.val)

parse_response(cls, response) == ParseExtracted(cls, _extract_json(response))

-----------------------------------------------------------------------------
(* build_user_prompt of the four stages *)

\* str(value) as an f-string renders it.
RECURSIVE Fmt(_)
RECURSIVE FmtItems(_)
FmtItems(items) ==
    IF items = <<>> THEN <<>>
    ELSE Fmt(Head(items)) \o
         (IF Len(items) > 1 THEN <<Tok(",")>> ELSE <<>>) \o FmtItems(Tail(items))
Fmt(v) ==
    CASE v.t = "none" -> <<Tok("None")>>
      [] v.t = "str"  -> [k \in DOMAIN v.s |-> Tok(v.s[k])]
      [] v.t = "num"  -> <<Tok(ToString(v.n))>>
      [] v.t = "bool" -> <<Tok(IF v.b THEN "True" ELSE "False")>>
      [] v.t = "list" -> <<Tok("[")>> \o FmtItems(v.items) \o <<Tok("]")>>
      [] v.t = "map"  -> <<[ch |-> "dict", v |-> v.m]>>

\* value[:n] of a string (one word counts as one character).
Take(v, n) == Str(SubSeq(v.s, 1, IF Len(v.s) < n THEN Len(v.s) ELSE n))

\* a or b
Or(a, b) == IF Truthy(a) THEN a ELSE b

Label(s) == <<Tok(s)>>

\* A faulty prompt that renders the whole record, the stage's own fields included.
PromptOfRow(cls, row) == Ret(<<[ch |-> "dict", v |-> row.m]>>)

\* A faulty prompt that quotes the first field the stage itself owns.
PromptWithOwn(cls, row) ==
    Ret(Label("ANNOTATED SO FAR:") \o Fmt(_get_nested(row, OUTPUT_FIELDS(cls)[1]).val))

build_user_prompt(cls, row) ==
    LET input_data == DictGet(row.m, "input", Map(EmptyDict))
        ofnr == DictGet(row.m, "ofnr", Map(EmptyDict))
        inp(key, dflt) == DictGet(input_data.m, key, dflt)
        of(key) == DictGet(ofnr.m, key, List(<<>>))
        clip(v, n) == IF Truthy(v) THEN Fmt(Take(v, n)) ELSE Label("N/A") IN
    IF ~IsMap(input_data) \/ (cls # "observer" /\ ~IsMap(ofnr))
    THEN Raise("AttributeError")
    ELSE CASE cls = "observer" ->
           LET text == IF inp("format", None) = Str(<<"pair">>)
                       THEN Or(inp("chosen", None), Or(inp("rejected", None), Str(<<>>)))
                       ELSE Or(inp("assistant_response", None), Str(<<>>))
               prompt == inp("prompt", Str(<<>>))
               context == inp("context", Str(<<>>)) IN
           IF text.t # "str" \/ (Truthy(context) /\ context.t # "str")
           THEN Raise("TypeError")
           ELSE Ret(Label("CONTEXT:")
                    \o (IF Truthy(context) THEN Fmt(Take(context, 1500)) ELSE Label("(none)"))
                    \o Label("LAST USER TURN:") \o Fmt(prompt)
                    \o Label("FULL TEXT:") \o Fmt(Take(text, 3000)))
      [] cls = "empathizer" ->
           Ret(Label("OBSERVATION (from Pass 1):") \o Fmt(of("observation"))
               \o Label("ORIGINAL USER TURN:") \o Fmt(inp("prompt", Str(<<>>))))
      [] cls = "strategist" ->
           Ret(Label("OBSERVATION:") \o Fmt(of("observation"))
               \o Label("FEELINGS:") \o Fmt(of("feelings"))
               \o Label("NEEDS (universal):") \o Fmt(of("need"))
               \o Label("EXPLICIT WANTS:") \o Fmt(of("explicit_needs"))
               \o Label("ORIGINAL USER TURN:") \o Fmt(inp("prompt", Str(<<>>))))
      [] cls = "critic" ->
           LET chosen == inp("chosen", Str(<<>>))
               rejected == inp("rejected", Str(<<>>)) IN
           IF (Truthy(chosen) /\ chosen.t # "str") \/ (Truthy(rejected) /\ rejected.t # "str")
           THEN Raise("TypeError")
           ELSE Ret(Label("Prompt:") \o Fmt(inp("prompt", Str(<<>>)))
                    \o Label("Chosen:") \o clip(chosen, 500)
                    \o Label("Rejected:") \o clip(rejected, 500)
                    \o Label("Observation:") \o Fmt(of("observation"))
                    \o Label("Feelings:") \o Fmt(of("feelings"))
                    \o Label("Needs:") \o Fmt(of("need"))
                    \o Label("Explicit Request:") \o Fmt(of("explicit_request"))
                    \o Label("Implicit Request:") \o Fmt(of("implicit_request"))
                    \o Label("Pseudo-feelings detected:") \o Fmt(of("pseudo_feelings_detected"))
                    \o Label("Evaluations detected:") \o Fmt(of("evaluations_detected")))

-----------------------------------------------------------------------------
(* The external model: what one request can come back with *)

\* _call_llm: the reply text on status 200, "" on any other status or on an
\* exception (time-out, transport failure, a body without the reply field).
\* A 200 body whose content is null yields None.
_call_llm(outcome) ==
    IF outcome.kind = "http"
    THEN IF outcome.status = 200 THEN outcome.content ELSE Str(<<>>)
    ELSE Str(<<>>)

\* _process_single after parse_response: a raise leaves the row as it was.
MergeParsed(cls, row, parsed) ==
    IF Raised(parsed) THEN [exc |-> parsed.exc, val |-> row]
    ELSE apply_to_row(cls, row, parsed.val)

\* _process_single after the call returned: parse and merge a non-empty reply.
_process_single(cls, row, response) ==
    IF Truthy(response) THEN MergeParsed(cls, row, parse_response(cls, response.s))
    ELSE Ret(row)

\* The reply texts of the model's external endpoint for a stage.  A reply
\* object is described per parse line: "val" (a value), "falsy" (an empty
\* list, 0, false or ""), "null" or "omit".
IsListLine(line) == line.dflt = List(<<>>)

ValueOf(line, k, how, c) ==
    CASE how = "null" -> None
      [] how = "val" ->
           IF IsListLine(line) THEN List(<<Str(<<c>>)>>) ELSE Str(<<c>>)
      [] how = "falsy" ->
           IF IsListLine(line) THEN List(<<>>)
           ELSE <<Num(0), Bool(FALSE), Str(<<>>)>>[(k % 3) + 1]

Picks == {"full", "lists", "scalars", "nullfirst", "falsy"}

PickOf(line, k, pick) ==
    CASE pick = "full"      -> "val"
      [] pick = "lists"     -> IF IsListLine(line) THEN "val" ELSE "omit"
      [] pick = "scalars"   -> IF IsListLine(line) THEN "omit" ELSE "val"
      [] pick = "nullfirst" -> IF k = 1 THEN "null" ELSE "val"
      [] pick = "falsy"     -> "falsy"

\* The members read from `src` ("data" for the members of the reply object
\* itself), in the order of the parse lines.
RECURSIVE MembersOf(_, _, _, _, _)
MembersOf(lines, pick, c, src, k) ==
    IF k > Len(lines) THEN <<>>
    ELSE (IF lines[k].src = src /\ PickOf(lines[k], k, pick) # "omit"
          THEN <<Member(lines[k].key, ValueOf(lines[k], k, PickOf(lines[k], k, pick), c))>>
          ELSE <<>>) \o MembersOf(lines, pick, c, src, k + 1)

SubObjectOrder == <<"safety", "quality", "flags">>

SubMember(name, members) ==
    IF members # <<>> THEN <<Member(name, Map(MembersDict(members)))>> ELSE <<>>

RECURSIVE SubMembers(_, _, _, _)
SubMembers(lines, pick, c, n) ==
    IF n > Len(SubObjectOrder) THEN <<>>
    ELSE SubMember(SubObjectOrder[n], MembersOf(lines, pick, c, SubObjectOrder[n], 1))
         \o SubMembers(lines, pick, c, n + 1)

ObjectOf(lines, pick, c) ==
    <<Tok("{")>> \o SubMembers(lines, pick, c, 1) \o MembersOf(lines, pick, c, "data", 1)
    \o <<Tok("}")>>

ObjectText(cls, pick, c) == ObjectOf(ParseLines(cls), pick, c)

\* Members that no parse_response line of the stage reads: the record's id and
\* input, and the keys of the stage that follows in PASS_ORDER.
NextStage == [observer |-> "empathizer", empathizer |-> "strategist",
              strategist |-> "critic", critic |-> "observer"]

ForeignMembers(cls, c) ==
    <<Member("id", Str(<<c>>)), Member("input", Map([prompt |-> Str(<<c>>)]))>>
    \o MembersOf(ParseLines(NextStage[cls]), "full", c, "data", 1)

\* A full reply object that also carries the foreign members.
WideText(cls, c) ==
    <<Tok("{")>> \o SubMembers(ParseLines(cls), "full", c, 1)
    \o MembersOf(ParseLines(cls), "full", c, "data", 1)
    \o ForeignMembers(cls, c) \o <<Tok("}")>>

\* Replies whose sub-object has an unexpected type (critic only).
OddReplies(cls) ==
    IF SubObjects(cls) = {} THEN {}
    ELSE { <<Tok("{"), Member("safety", None), Tok("}")>>,
           <<Tok("{"), Member("quality", Str(<<"high">>)), Tok("}")>>,
           <<Tok("{"), Member("flags", List(<<Str(<<"none">>)>>)), Tok("}")>> }

RepliesOf(cls) ==
    {ObjectText(cls, pick, "a") : pick \in Picks}
    \cup { WideText(cls, "b"),
           <<Tok("Sure"), Tok(" "), Tok("fence"), Tok("json"), Tok(" ")>>
               \o ObjectText(cls, "full", "a") \o <<Tok(" "), Tok("fence")>>,
           ObjectText(cls, "lists", "b") \o <<Tok(" "), Tok("done")>>,
           <<Tok("I"), Tok(" "), Tok("cannot"), Tok(" "), Tok("answer")>>,
           <<Tok("{"), Tok("observation"), Tok("}")>> }
    \cup OddReplies(cls)

ReplyTable == [cls \in Stages |-> RepliesOf(cls)]

Replies(cls) == ReplyTable[cls]


\* What a request can come back with.
OutcomesOf(cls) ==
    { [kind |-> "timeout", status |-> 0, content |-> None],
      [kind |-> "exception", status |-> 0, content |-> None],
      [kind |-> "malformed", status |-> 200, content |-> None],
      [kind |-> "http", status |-> 500, content |-> None],
      [kind |-> "http", status |-> 200, content |-> None],
      [kind |-> "http", status |-> 200, content |-> Str(<<>>)] }
    \cup {[kind |-> "http", status |-> 200, content |-> Str(t)] : t \in Replies(cls)}

OutcomeTable == [cls \in Stages |-> OutcomesOf(cls)]

Outcomes(cls) == OutcomeTable[cls]

-----------------------------------------------------------------------------
(* Records on storage *)

NumRows == 2
MaxBatch == 2
MaxRuns == 2

PASS_ORDER == <<"observer", "empathizer", "strategist", "critic">>

\* The annotation namespaces of a record as create_record_pair and
\* create_record_redteam build them: every field present and None.
EmptyAnnotation ==
    [ ofnr |-> Map([observation |-> None, feelings |-> None, need |-> None,
                    explicit_needs |-> None, implicit_needs |-> None,
                    explicit_request |-> None, implicit_request |-> None,
                    implicit_intent |-> None, evaluations_detected |-> None,
                    pseudo_feelings_detected |-> None,
                    strategy_leakage_detected |-> None, translation_notes |-> None]),
      metadata |-> Map([somatic_markers |-> None, emotion_arousal_hint |-> None,
                        emotion_valence_hint |-> None, language |-> Str(<<"en">>)]),
      safety |-> Map([label |-> None, policy_category |-> None, reason |-> None,
                      rewrite_mode |-> None, safe_alternative |-> None,
                      safety_confidence |-> None]),
      quality |-> Map([ofnr_compliance |-> None, observation_is_nonjudgmental |-> None,
                       pseudo_feeling_translation_quality |-> None,
                       needs_list_match |-> None, strategy_leakage_score |-> None,
                       request_is_actionable |-> None, request_is_noncoercive |-> None,
                       overall_confidence |-> None]),
      flags |-> Map([error_flags |-> None, warnings |-> None]) ]

RecordId(n) == Str(<<"hh", ToString(n)>>)

\* A faulty creator that leaves the flags namespace out of the record.
CreateWithoutFlags(n) ==
    Map([k \in {"id", "input"} \cup (DOMAIN EmptyAnnotation \ {"flags"}) |->
         CASE k = "id" -> RecordId(n)
           [] k = "input" -> Map([format |-> Str(<<"pair">>),
                                  prompt |-> Str(<<"You", ToString(n)>>)])
           [] OTHER -> EmptyAnnotation[k]])

create_record_pair(n) ==
    Map([k \in {"id", "input"} \cup DOMAIN EmptyAnnotation |->
         CASE k = "id" -> RecordId(n)
           [] k = "input" ->
                Map([format |-> Str(<<"pair">>),
                     prompt |-> Str(<<"You", "always", "ignore", "me", ToString(n)>>),
                     context |-> None,
                     chosen |-> Str(<<"Human:", "You", "always", "ignore", "me", ToString(n)>>),
                     rejected |-> Str(<<"Human:", "Go", "away">>),
                     assistant_response |-> None])
           [] OTHER -> EmptyAnnotation[k]])

create_record_redteam(n) ==
    Map([k \in {"id", "input"} \cup DOMAIN EmptyAnnotation |->
         CASE k = "id" -> RecordId(n)
           [] k = "input" ->
                Map([format |-> Str(<<"single">>),
                     prompt |-> Str(<<"Tell", "me", ToString(n)>>),
                     context |-> Str(<<"Human:", "Hi", "Assistant:", "Hello">>),
                     chosen |-> None,
                     rejected |-> None,
                     assistant_response |-> Str(<<"No">>)])
           [] OTHER -> EmptyAnnotation[k]])

\* A stored line that holds only an id and an input (no annotation namespace).
BareRecord(n) ==
    Map([id |-> RecordId(n),
         input |-> Map([format |-> Str(<<"pair">>),
                        prompt |-> Str(<<"Why", ToString(n)>>),
                        chosen |-> Str(<<"Human:", "Why", ToString(n)>>)])])

\* A stored line whose ofnr value is a string instead of an object.
OddRecord(n) ==
    Map([id |-> RecordId(n),
         input |-> Map([format |-> Str(<<"pair">>),
                        prompt |-> Str(<<"Hm", ToString(n)>>),
                        chosen |-> Str(<<"Human:", "Hm", ToString(n)>>)]),
         ofnr |-> Str(<<"I", "need", "rest">>)])

\* The record after the stages other than cls have each merged a full reply.
RECURSIVE AnnotatedBy(_, _, _)
AnnotatedBy(row, cls, n) ==
    IF n > Len(PASS_ORDER) THEN row
    ELSE IF PASS_ORDER[n] = cls THEN AnnotatedBy(row, cls, n + 1)
    ELSE AnnotatedBy(
             _process_single(PASS_ORDER[n], row,
                             Str(ObjectText(PASS_ORDER[n], "full", "z"))).val,
             cls, n + 1)

\* The collections a run can find on storage: the output of init_dataset
\* ("fresh"), the same after the other stages have run ("annotated"), and
\* lines that init_dataset did not write ("foreign").
Datasets == {"fresh", "annotated", "foreign"}

StoredRecord(cls, data, n) ==
    CASE data = "fresh" ->
           IF n % 2 = 1 THEN create_record_pair(n) ELSE create_record_redteam(n)
      [] data = "annotated" ->
           AnnotatedBy(IF n % 2 = 1 THEN create_record_pair(n)
                       ELSE create_record_redteam(n), cls, 1)
      [] data = "foreign" ->
           IF n % 2 = 1 THEN BareRecord(n) ELSE OddRecord(n)

InitialFile(cls, data) == [n \in 1..NumRows |-> StoredRecord(cls, data, n)]

-----------------------------------------------------------------------------
(* run_file and process_batch of one stage instance *)

\* orchestrate.main not started; no stage instance assembling its prompt.
PipeAtRest ==
    /\ config = [k \in {} |-> None]
    /\ start_from = 1
    /\ pass_i = 1
    /\ current_input = "none"
    /\ store = [k \in {} |-> <<>>]
    /\ log = <<>>
    /\ opc = "idle"

OntoAtRest ==
    /\ ontologies_dir = {}
    /\ prompts_dir = {}
    /\ _ontologies = [k \in {} |-> None]
    /\ _system_prompt = None
    /\ probes = <<>>
    /\ payloads = <<>>
    /\ assembled = 0

NoCall == [exc |-> "idle", val |-> None]
NoArg == [obj |-> None, path |-> <<>>]

\* A faulty slice that takes every row from start on, whatever the size.
RestOfRows(rws, start, size) == [k \in 1..(Len(rws) - start + 1) |-> start + k - 1]

\* rows[i:i+batch_size], as indices into rows.
Batch(rws, start, size) ==
    LET last == IF start + size - 1 < Len(rws) THEN start + size - 1 ELSE Len(rws) IN
    [k \in 1..(last - start + 1) |-> start + k - 1]

\* A faulty test that never finds a row already processed.
NeverSkips(cls, row) == FALSE

\* Whether the loop over the batch skips the row (results.append(row); continue).
Skips(cls, row) == _is_already_processed(cls, row).val = Bool(TRUE)

\* A faulty selection that appends none of the skipped rows.
DropsSatisfied(cls, rws, batch) == <<>>

\* The rows of the batch that are appended to results at once, in batch order.
Satisfied(cls, rws, batch) == SelectSeq(batch, LAMBDA k : Skips(cls, rws[k]))

\* A faulty selection that creates a task for every row of the batch.
WholeBatch(cls, rws, batch) == batch

\* The rows of the batch for which a task is created, in batch order.
Pending(cls, rws, batch) == SelectSeq(batch, LAMBDA k : ~Skips(cls, rws[k]))

\* The tasks of a slice: tasks.append(self._process_single(session, row, user_prompt)).
NewTasks(cls, rws, batch) ==
    LET pending == Pending(cls, rws, batch) IN
    [k \in DOMAIN pending |->
        [row |-> pending[k],
         user_prompt |-> build_user_prompt(cls, rws[pending[k]]).val,
         state |-> "awaiting",
         response |-> None]]

\* Whether building the slice raises (from _is_already_processed or build_user_prompt).
SliceRaises(cls, rws, batch) ==
    \E k \in Range(batch) :
        \/ Raised(_is_already_processed(cls, rws[k]))
        \/ Raised(build_user_prompt(cls, rws[k]))

\* run_file: the collection is read and process_batch entered; the session opens.
StartRun(size) ==
    /\ pc = "idle"
    /\ runs < MaxRuns
    /\ runs' = runs + 1
    /\ batch_size' = size
    /\ rows' = file
    /\ pre' = file
    /\ results' = <<>>
    /\ i' = 1
    /\ tasks' = <<>>
    /\ session' = "open"
    /\ called' = {}
    /\ sat' = {}
    /\ pc' = "slice"
    /\ UNCHANGED <<stage, dataset, file, completed, det, memo, fn, arg, out,
                   pipeVars, ontoVars>>

\* One iteration of the loop over the slices up to the await: the rows of
\* the slice are split, the skipped ones appended to results, the tasks of
\* the others created and, as gather starts them, their requests posted.
BuildSlice ==
    /\ pc = "slice"
    /\ i <= Len(rows)
    /\ LET batch == Batch(rows, i, batch_size) IN
       IF SliceRaises(stage, rows, batch)
       THEN /\ pc' = "raised"
            /\ session' = "closed"
            /\ UNCHANGED <<results, tasks, i, called, sat>>
       ELSE LET new == NewTasks(stage, rows, batch) IN
            /\ results' = results \o Satisfied(stage, rows, batch)
            /\ sat' = sat \cup Range(Satisfied(stage, rows, batch))
            /\ called' = called \cup {new[k].row : k \in DOMAIN new}
            /\ IF new = <<>>
               THEN /\ i' = i + batch_size
                    /\ tasks' = <<>>
                    /\ pc' = "slice"
               ELSE /\ i' = i
                    /\ tasks' = new
                    /\ pc' = "gather"
            /\ session' = session
    /\ UNCHANGED <<stage, dataset, file, runs, batch_size, rows, pre, completed,
                   det, memo, fn, arg, out,
                   pipeVars, ontoVars>>

\* The request of task t comes back with `outcome`; _process_single parses
\* and merges without suspending.
Complete(t, outcome) ==
    /\ pc = "gather"
    /\ t \in DOMAIN tasks
    /\ tasks[t].state = "awaiting"
    /\ det => (tasks[t].user_prompt \in DOMAIN memo => memo[tasks[t].user_prompt] = outcome)
    /\ memo' = IF det /\ tasks[t].user_prompt \notin DOMAIN memo
               THEN DictSet(memo, tasks[t].user_prompt, outcome) ELSE memo
    /\ LET r == _process_single(stage, rows[tasks[t].row], _call_llm(outcome)) IN
       /\ rows' = [rows EXCEPT ![tasks[t].row] = r.val]
       /\ tasks' = [tasks EXCEPT ![t].state = IF Raised(r) THEN "raised" ELSE "done",
                                 ![t].response = _call_llm(outcome)]
    /\ UNCHANGED <<stage, dataset, file, runs, pc, batch_size, results, i, session,
                   pre, called, sat, completed, det, fn, arg, out,
                   pipeVars, ontoVars>>

\* A faulty gather that returns as soon as one task is done and leaves the
\* others waiting.
GatherFirst ==
    /\ pc = "gather"
    /\ \E t \in DOMAIN tasks : tasks[t].state = "done"
    /\ results' = results \o [t \in DOMAIN tasks |-> tasks[t].row]
    /\ i' = i + batch_size
    /\ pc' = "slice"
    /\ UNCHANGED <<stage, dataset, file, runs, batch_size, rows, tasks, session, pre,
                   called, sat, completed, det, memo, fn, arg, out,
                   pipeVars, ontoVars>>

\* A faulty gather that takes the same slice again instead of the next one.
GatherStays ==
    /\ pc = "gather"
    /\ \A t \in DOMAIN tasks : tasks[t].state = "done"
    /\ tasks' = <<>>
    /\ pc' = "slice"
    /\ UNCHANGED <<stage, dataset, file, runs, batch_size, rows, results, i, session,
                   pre, called, sat, completed, det, memo, fn, arg, out,
                   pipeVars, ontoVars>>

\* gather returns the rows of the tasks in submission order; results.extend.
GatherDone ==
    /\ pc = "gather"
    /\ \A t \in DOMAIN tasks : tasks[t].state = "done"
    /\ results' = results \o [t \in DOMAIN tasks |-> tasks[t].row]
    /\ i' = i + batch_size
    /\ tasks' = <<>>
    /\ pc' = "slice"
    /\ UNCHANGED <<stage, dataset, file, runs, batch_size, rows, session, pre,
                   called, sat, completed, det, memo, fn, arg, out,
                   pipeVars, ontoVars>>

\* A faulty propagation that leaves the session open.
PropagateLeaking ==
    /\ pc = "gather"
    /\ \E t \in DOMAIN tasks : tasks[t].state = "raised"
    /\ tasks' = [t \in DOMAIN tasks |->
                    IF tasks[t].state = "awaiting"
                    THEN [tasks[t] EXCEPT !.state = "cancelled"] ELSE tasks[t]]
    /\ pc' = "raised"
    /\ UNCHANGED <<stage, dataset, file, runs, batch_size, rows, results, i, pre,
                   session, called, sat, completed, det, memo, fn, arg, out,
                   pipeVars, ontoVars>>

\* A task raised: gather re-raises, the session is closed on the way out of
\* process_batch and asyncio.run cancels the tasks still waiting.
Propagate ==
    /\ pc = "gather"
    /\ \E t \in DOMAIN tasks : tasks[t].state = "raised"
    /\ tasks' = [t \in DOMAIN tasks |->
                    IF tasks[t].state = "awaiting"
                    THEN [tasks[t] EXCEPT !.state = "cancelled"] ELSE tasks[t]]
    /\ session' = "closed"
    /\ pc' = "raised"
    /\ UNCHANGED <<stage, dataset, file, runs, batch_size, rows, results, i, pre,
                   called, sat, completed, det, memo, fn, arg, out,
                   pipeVars, ontoVars>>

\* The loop is over: the session is released and process_batch returns results.
Return ==
    /\ pc = "slice"
    /\ i > Len(rows)
    /\ session' = "closed"
    /\ pc' = "returned"
    /\ UNCHANGED <<stage, dataset, file, runs, batch_size, rows, results, i, tasks,
                   pre, called, sat, completed, det, memo, fn, arg, out,
                   pipeVars, ontoVars>>

\* run_file writes the processed rows, one line each; the next run reads them.
WriteOutput ==
    /\ pc = "returned"
    /\ file' = [k \in DOMAIN results |-> rows[results[k]]]
    /\ completed' = completed + 1
    /\ pc' = "idle"
    /\ UNCHANGED <<stage, dataset, runs, batch_size, rows, results, i, tasks, session,
                   pre, called, sat, det, memo, fn, arg, out,
                   pipeVars, ontoVars>>

\* A faulty way out that saves the rows collected so far when the exception
\* leaves run_file.
AbortSaving ==
    /\ pc = "raised"
    /\ file' = [k \in DOMAIN results |-> rows[results[k]]]
    /\ pc' = "idle"
    /\ UNCHANGED <<stage, dataset, runs, batch_size, rows, results, i, tasks,
                   session, pre, called, sat, completed, det, memo, fn, arg, out,
                   pipeVars, ontoVars>>

\* The exception leaves run_file: nothing is written, the process ends.
Abort ==
    /\ pc = "raised"
    /\ pc' = "idle"
    /\ UNCHANGED <<stage, dataset, file, runs, batch_size, rows, results, i, tasks,
                   session, pre, called, sat, completed, det, memo, fn, arg, out,
                   pipeVars, ontoVars>>

InitRun(d) ==
    /\ stage \in Stages
    /\ dataset \in Datasets
    /\ file = InitialFile(stage, dataset)
    /\ runs = 0
    /\ pc = "idle"
    /\ batch_size = 1
    /\ rows = <<>>
    /\ results = <<>>
    /\ i = 1
    /\ tasks = <<>>
    /\ session = "none"
    /\ pre = <<>>
    /\ called = {}
    /\ sat = {}
    /\ completed = 0
    /\ det = d
    /\ memo = EmptyDict
    /\ fn = "none"
    /\ arg = NoArg
    /\ out = NoCall
    /\ PipeAtRest
    /\ OntoAtRest

Init == InitRun(FALSE)

Next ==
    \/ \E size \in 1..MaxBatch : StartRun(size)
    \/ BuildSlice
    \/ \E t \in 1..MaxBatch : \E outcome \in Outcomes(stage) : Complete(t, outcome)
    \/ GatherDone
    \/ Propagate
    \/ Return
    \/ WriteOutput
    \/ Abort

Spec == Init /\ [][Next]_vars

\* The same stage instance in front of an external model that answers every
\* request it has seen before as it answered it then.
InitSame == InitRun(TRUE)

SpecSame == InitSame /\ [][Next]_vars

-----------------------------------------------------------------------------
(* The nested reads on their own: _get_nested applied to records and paths *)

\* Values a record can hold under "ofnr".
NestedValues ==
    { None, Str(<<>>), Str(<<"hello">>), Str(<<"I", "need", "rest">>),
      Num(0), Num(5), Bool(TRUE), Bool(FALSE),
      List(<<>>), List(<<Str(<<"need">>)>>), List(<<Str(<<"rest">>)>>),
      Map(EmptyDict), Map([need |-> None]), Map([need |-> Str(<<"rest">>)]),
      Map([need |-> List(<<>>)]), Map([need |-> Num(0)]),
      Map([need |-> Map([x |-> Num(1)])]), Map([feelings |-> List(<<>>)]) }

NestedRecords ==
    {None, Map(EmptyDict)} \cup {Map([ofnr |-> v]) : v \in NestedValues}

NestedPaths ==
    { <<>>, <<"ofnr">>, <<"need">>, Path("ofnr", "need"), Path("ofnr", "feelings"),
      Path("metadata", "language"), <<"ofnr", ".", "need", ".", "x">> }

GetNested(obj, path) ==
    /\ fn' = "_get_nested"
    /\ arg' = [obj |-> obj, path |-> path]
    /\ out' = _get_nested(obj, path)
    /\ UNCHANGED <<stage, dataset, file, runs, pc, batch_size, rows, results, i,
                   tasks, session, pre, called, sat, completed, det, memo,
                   pipeVars, ontoVars>>

InitNested ==
    /\ stage = "observer"
    /\ dataset = "fresh"
    /\ file = <<>>
    /\ runs = 0
    /\ pc = "idle"
    /\ batch_size = 1
    /\ rows = <<>>
    /\ results = <<>>
    /\ i = 1
    /\ tasks = <<>>
    /\ session = "none"
    /\ pre = <<>>
    /\ called = {}
    /\ sat = {}
    /\ completed = 0
    /\ det = FALSE
    /\ memo = EmptyDict
    /\ fn = "none"
    /\ arg = NoArg
    /\ out = NoCall
    /\ PipeAtRest
    /\ OntoAtRest

NextNested == \E obj \in NestedRecords : \E path \in NestedPaths : GetNested(obj, path)

SpecNested == InitNested /\ [][NextNested]_vars


-----------------------------------------------------------------------------
(* Properties *)

\* The record at index k passed _is_already_processed when the run read it.
AlreadyProcessed(k) == _is_already_processed(stage, pre[k]) = Ret(Bool(TRUE))

\* Whether the read of an owned path of the row yields a value that is not null.
HasValue(row, path) ==
    ~Raised(_get_nested(row, path)) /\ ~IsNone(_get_nested(row, path).val)

\* Every path of the stage's OUTPUT_FIELDS reads as a value that is not null.
AllNonNull(cls, row) ==
    \A n \in DOMAIN OUTPUT_FIELDS(cls) : HasValue(row, OUTPUT_FIELDS(cls)[n])

\* Task t has returned from a call that gave a non-empty reply.
Merged(t) == tasks[t].state = "done" /\ Truthy(tasks[t].response)

\* Task t has returned from a call that failed (time-out, transport error,
\* status other than 200, empty reply).
Failed(t) == tasks[t].state = "done" /\ ~Truthy(tasks[t].response)

\* C1: a record for which _is_already_processed holds when the run reads it
\* gets no task and no external call, keeps exactly the content it had before
\* the run, and is among the records process_batch returns.
C1SatisfiedUntouched ==
    \A k \in DOMAIN pre :
        AlreadyProcessed(k) =>
            /\ k \notin called
            /\ \A t \in DOMAIN tasks : tasks[t].row # k
            /\ rows[k] = pre[k]
            /\ (pc = "returned" => k \in Range(results))

C1Witness ==
    /\ pc = "returned"
    /\ called # {}
    /\ \E k \in DOMAIN pre : AlreadyProcessed(k) /\ k \in Range(results)

\* C2: in front of a model that answers the same request with the same reply,
\* a run that follows a run that wrote its output leaves every record with the
\* content that run left (fully satisfied, partially filled or unchanged), at
\* every point of the run and in what it returns.
C2SecondRunIdentical ==
    (runs >= 2 /\ completed >= 1) => \A k \in DOMAIN rows : rows[k] = pre[k]

C2Witness ==
    /\ runs >= 2
    /\ completed >= 1
    /\ pc = "returned"
    /\ \E k \in called :
           \E n \in DOMAIN OUTPUT_FIELDS(stage) : HasValue(pre[k], OUTPUT_FIELDS(stage)[n])

\* C3: where the call of a record of the slice failed, the record keeps its
\* content, process_batch raises nothing and no sibling task is cancelled.
C3FailureIsolated ==
    \A t \in DOMAIN tasks :
        Failed(t) =>
            /\ rows[tasks[t].row] = pre[tasks[t].row]
            /\ pc # "raised"
            /\ \A u \in DOMAIN tasks : tasks[u].state \notin {"raised", "cancelled"}

\* C4: a task whose call returned a non-empty reply raises no error.
C4ReplyNeverRaises ==
    \A t \in DOMAIN tasks : Truthy(tasks[t].response) => tasks[t].state # "raised"

\* Neither the stripped text nor its part from the first "{" to the last "}"
\* is an object.
NoObjectIn(text) ==
    /\ Raised(json_loads(text))
    /\ \/ Find(text, "{") = -1
       \/ RFind(text, "}") = -1
       \/ Raised(json_loads(SubSeq(text, Find(text, "{"), RFind(text, "}"))))

Unparseable(response) == NoObjectIn(Strip(Group1(response, FenceSearch(response))))

\* C5: a non-empty reply that holds no parseable object leaves the record as
\* it was (no field is written), so the record still needs processing.
C5UnparseableWritesNothing ==
    \A t \in DOMAIN tasks :
        (Merged(t) /\ Unparseable(tasks[t].response.s))
            => /\ rows[tasks[t].row] = pre[tasks[t].row]
               /\ ~AllNonNull(stage, rows[tasks[t].row])

\* Whether the reply object holds the key that the parse line reads.
Supplies(data, line) ==
    IF line.src = "data" THEN line.key \in DOMAIN data.m
    ELSE /\ line.src \in DOMAIN data.m
         /\ IsMap(data.m[line.src])
         /\ line.key \in DOMAIN data.m[line.src].m

\* The owned paths that held a value keep it unless the reply object supplies
\* the field.
KeepsUnsupplied(after, before, data, lines) ==
    \A n \in DOMAIN lines :
        (HasValue(before, lines[n].path) /\ ~Supplies(data, lines[n]))
            => _get_nested(after, lines[n].path) = _get_nested(before, lines[n].path)

\* C6: an owned field that held a value before the run holds afterwards that
\* value or one the reply supplied for it, never a parse default.
C6NoFieldLost ==
    \A t \in DOMAIN tasks :
        Merged(t) =>
            KeepsUnsupplied(rows[tasks[t].row], pre[tasks[t].row],
                            _extract_json(tasks[t].response.s).val, ParseLines(stage))

\* The owned paths whose parsed value is null or missing read the same before
\* and after the merge.
KeepsNull(after, before, parsed, fields) ==
    \A n \in DOMAIN fields :
        IsNone(DictGet(parsed, fields[n], None))
            => _get_nested(after, fields[n]) = _get_nested(before, fields[n])

\* C7: apply_to_row writes no null: every owned path whose value in the parsed
\* update is null or missing holds after the merge the value it held before.
C7NeverWritesNull ==
    \A t \in DOMAIN tasks :
        Merged(t) =>
            KeepsNull(rows[tasks[t].row], pre[tasks[t].row],
                      parse_response(stage, tasks[t].response.s).val,
                      OUTPUT_FIELDS(stage))

\* A merge in which a field that held a value met a null in the parsed update.
KeptOverNull(before, parsed, fields) ==
    \E n \in DOMAIN fields :
        HasValue(before, fields[n]) /\ IsNone(DictGet(parsed, fields[n], None))

C7Witness ==
    \E t \in DOMAIN tasks :
        /\ Merged(t)
        /\ rows[tasks[t].row] # pre[tasks[t].row]
        /\ KeptOverNull(pre[tasks[t].row],
                        parse_response(stage, tasks[t].response.s).val,
                        OUTPUT_FIELDS(stage))

\* The paths a record can hold that the stage does not own: the id, the input
\* and language fields, and the paths the other stages own.
InputPaths ==
    { <<"id">>, <<"input">>, Path("input", "format"), Path("input", "prompt"),
      Path("input", "context"), Path("input", "chosen"), Path("input", "rejected"),
      Path("input", "assistant_response"), Path("metadata", "language") }

OwnedBy(cls) == Range(OUTPUT_FIELDS(cls))

FrameTable ==
    [cls \in Stages |->
        InputPaths \cup (UNION {OwnedBy(s) : s \in Stages \ {cls}})]

FramePaths(cls) == FrameTable[cls]

\* The owned paths for which the parsed update has a value hold that value.
HoldsParsed(after, parsed, fields) ==
    \A n \in DOMAIN fields :
        ~IsNone(DictGet(parsed, fields[n], None))
            => _get_nested(after, fields[n]) = Ret(parsed[fields[n]])

\* C8: a run of a stage changes no field outside its OUTPUT_FIELDS: the id,
\* the input and every path owned by another stage read the same as before
\* the run, and the owned paths hold what the parsed update gives them.
C8OnlyOwnedFieldsChange ==
    /\ \A k \in DOMAIN rows :
           rows[k] # pre[k] =>
               \A p \in FramePaths(stage) : _get_nested(rows[k], p) = _get_nested(pre[k], p)
    /\ \A t \in DOMAIN tasks :
           Merged(t) =>
               HoldsParsed(rows[tasks[t].row],
                           parse_response(stage, tasks[t].response.s).val,
                           OUTPUT_FIELDS(stage))

C8Witness ==
    /\ stage = "observer"
    /\ \E t \in DOMAIN tasks :
           /\ Merged(t)
           /\ tasks[t].response = Str(WideText("observer", "b"))
           /\ _get_nested(rows[tasks[t].row], Path("ofnr", "observation"))
                  = Ret(List(<<Str(<<"b">>)>>))
           /\ _get_nested(rows[tasks[t].row], Path("ofnr", "evaluations_detected"))
                  = Ret(List(<<Str(<<"b">>)>>))
           /\ _get_nested(rows[tasks[t].row], Path("ofnr", "feelings")) = Ret(None)

\* C9: _is_already_processed holds exactly when every owned path reads as a
\* value that is not null (an empty list, an empty string, 0 and false are
\* values); a record with a null owned path gets an external call in every run
\* that reaches its slice, whatever its other owned paths hold.
C9SatisfiedIffAllNonNull ==
    \A k \in DOMAIN pre :
        /\ AlreadyProcessed(k) <=> AllNonNull(stage, pre[k])
        /\ k \in (sat \cup called) =>
               /\ k \in sat <=> AllNonNull(stage, pre[k])
               /\ k \in called <=> ~AllNonNull(stage, pre[k])

C9Witness ==
    /\ runs >= 2
    /\ \E k \in sat : ~Truthy(_get_nested(pre[k], OUTPUT_FIELDS(stage)[1]).val)
    /\ \E k \in called :
           \E n \in DOMAIN OUTPUT_FIELDS(stage) : HasValue(pre[k], OUTPUT_FIELDS(stage)[n])

\* C10: _get_nested raises nothing, whatever the record and the path.
C10NeverRaises == fn = "_get_nested" => ~Raised(out)


-----------------------------------------------------------------------------
(* The nested stores on their own: _set_nested applied to records, paths   *)
(* and values                                                              *)

StorePaths ==
    { <<"need">>, Path("ofnr", "need"), Path("ofnr", "feelings"),
      Path("metadata", "language"), <<"ofnr", ".", "need", ".", "x">>,
      <<"flags", ".", "a", ".", "b">> }

StoreValues == { None, Str(<<"rest">>), List(<<>>), Map([x |-> Num(1)]) }

SetNested(obj, path, value) ==
    /\ fn' = "_set_nested"
    /\ arg' = [obj |-> obj, path |-> path, value |-> value]
    /\ out' = _set_nested(obj, path, value)
    /\ UNCHANGED <<stage, dataset, file, runs, pc, batch_size, rows, results, i,
                   tasks, session, pre, called, sat, completed, det, memo,
                   pipeVars, ontoVars>>

NextStore ==
    \E obj \in NestedRecords : \E path \in StorePaths : \E value \in StoreValues :
        SetNested(obj, path, value)

SpecStore == InitNested /\ [][NextStore]_vars

\* The segments of keys[:-1] can be walked through mappings only, and at
\* least one of them is absent from the mapping the walk has reached.
RECURSIVE AbsentOnWalk(_, _, _)
AbsentOnWalk(obj, keys, missing) ==
    IF Len(keys) <= 1 THEN missing
    ELSE IF ~IsMap(obj) THEN FALSE
    ELSE IF Head(keys) \in DOMAIN obj.m
         THEN AbsentOnWalk(obj.m[Head(keys)], Tail(keys), missing)
         ELSE AbsentOnWalk(Map(EmptyDict), Tail(keys), TRUE)

IsPrefix(s, t) == Len(s) <= Len(t) /\ SubSeq(t, 1, Len(s)) = s

\* Paths that neither lead to the stored path nor extend it.
Unrelated(path) ==
    { q \in NestedPaths \cup StorePaths :
        ~IsPrefix(Split(q), Split(path)) /\ ~IsPrefix(Split(path), Split(q)) }

\* The dotted path of the first n segments of keys.
RECURSIVE Join(_, _)
Join(keys, n) ==
    IF n = 1 THEN <<keys[1]>> ELSE Join(keys, n - 1) \o <<".", keys[n]>>

\* Every intermediate segment reads a mapping after the store, and one that
\* was absent before holds nothing but the next segment.
Created(before, after, keys) ==
    \A n \in 1..(Len(keys) - 1) :
        LET was == _get_nested(before, Join(keys, n))
            now == _get_nested(after, Join(keys, n)) IN
        /\ ~Raised(now) /\ IsMap(now.val)
        /\ (was = Ret(None) => DOMAIN now.val.m = {keys[n + 1]})

\* C11: _set_nested on a record in which an intermediate segment of the path
\* is absent creates an empty mapping for each absent intermediate segment
\* and sets the leaf: afterwards _get_nested(record, path) returns the value,
\* and every path that is neither a prefix nor an extension of the path reads
\* what it read before.
C11StoreCreatesIntermediates ==
    (fn = "_set_nested" /\ AbsentOnWalk(arg.obj, Split(arg.path), FALSE)) =>
        /\ ~Raised(out)
        /\ _get_nested(out.val, arg.path) = Ret(arg.value)
        /\ Created(arg.obj, out.val, Split(arg.path))
        /\ \A q \in Unrelated(arg.path) :
               _get_nested(out.val, q) = _get_nested(arg.obj, q)

\* A store through two absent intermediate segments into a record that holds
\* another namespace.
C11Witness ==
    /\ fn = "_set_nested"
    /\ arg.path = <<"flags", ".", "a", ".", "b">>
    /\ arg.obj = Map([ofnr |-> Map([need |-> Str(<<"rest">>)])])
    /\ arg.value = Str(<<"rest">>)
    /\ out = Ret(Map([ofnr |-> Map([need |-> Str(<<"rest">>)]),
                      flags |-> Map([a |-> Map([b |-> Str(<<"rest">>)])])]))

-----------------------------------------------------------------------------
(* The Response Extractor on its own: _extract_json applied to texts *)

MaxText == 5

\* The tokens of the texts: white space, the fence, "json", the braces, a prose
\* word, a member, and a member whose value is nested too deep to decode.
Alphabet ==
    { Tok(" "), Tok("fence"), Tok("json"), Tok("{"), Tok("}"), Tok("ok"),
      Member("a", Num(1)), Member("b", Deep) }

Texts == UNION { [1..n -> Alphabet] : n \in 0..MaxText }

\* The state of a stage that is not running.
AtRest ==
    /\ stage = "observer"
    /\ file = <<>>
    /\ runs = 0
    /\ pc = "idle"
    /\ batch_size = 1
    /\ rows = <<>>
    /\ results = <<>>
    /\ i = 1
    /\ tasks = <<>>
    /\ session = "none"
    /\ pre = <<>>
    /\ called = {}
    /\ sat = {}
    /\ completed = 0
    /\ det = FALSE
    /\ memo = EmptyDict

InitExtract ==
    /\ AtRest
    /\ dataset = "fresh"
    /\ fn = "none"
    /\ arg \in Texts
    /\ out = NoCall
    /\ PipeAtRest
    /\ OntoAtRest

ExtractJson ==
    /\ fn = "none"
    /\ fn' = "_extract_json"
    /\ out' = _extract_json(arg)
    /\ UNCHANGED <<stage, dataset, file, runs, pc, batch_size, rows, results, i,
                   tasks, session, pre, called, sat, completed, det, memo, arg,
                   pipeVars, ontoVars>>

NextExtract == ExtractJson

SpecExtract == InitExtract /\ [][NextExtract]_vars

\* The candidate text: the content of the first fenced block that holds a
\* brace-delimited group if there is one, else the text; stripped.
Candidate(text) == Strip(Group1(text, FenceSearch(text)))

\* The candidate from its first "{" to its last "}".
Braced(text) == SubSeq(text, Find(text, "{"), RFind(text, "}"))

\* C12: _extract_json returns a mapping for every text and raises nothing; it
\* returns the empty mapping when no parse attempt succeeds.
C12ExtractTotal ==
    fn = "_extract_json" =>
        /\ ~Raised(out)
        /\ IsMap(out.val)
        /\ (NoObjectIn(Candidate(arg)) => out.val = Map(EmptyDict))

\* Whether the whole candidate is an object (step 2 applies and succeeds).
WholeLoads(text) == text # <<>> /\ text[1].ch = "{" /\ ~Raised(json_loads(text))

\* Whether the candidate from the first "{" to the last "}" is an object.
BracedLoads(text) ==
    /\ Find(text, "{") # -1
    /\ RFind(text, "}") # -1
    /\ ~Raised(json_loads(Braced(text)))

\* The result that the priority order gives for a candidate.
ByPriority(text) ==
    IF WholeLoads(text) THEN json_loads(text)
    ELSE IF BracedLoads(text) THEN json_loads(Braced(text))
    ELSE Ret(Map(EmptyDict))

\* C13: the extractor takes the content of a fenced block as the candidate if
\* there is one, parses the candidate whole if it starts with "{", parses the
\* part from the first "{" to the last "}" if that does not apply or fails,
\* and returns the empty mapping otherwise.
C13PriorityOrder == fn = "_extract_json" => out = ByPriority(Candidate(arg))

\* The end of the part of rows that the loop has reached: the current slice
\* while its tasks are gathered, the slices before i at the head of the loop.
Reached == IF pc = "gather" THEN i + batch_size - 1 ELSE i - 1

\* C14: the slices are separated by a barrier.  At the head of the loop no
\* task is waiting for its reply; while a slice is gathered the waiting tasks
\* are its own; no row of a later slice has been tested, had a request built
\* or been changed.
C14SliceBarrier ==
    /\ pc = "slice" => \A t \in DOMAIN tasks : tasks[t].state # "awaiting"
    /\ pc \in {"slice", "gather"} =>
         /\ \A k \in sat \cup called : k <= Reached
         /\ \A k \in DOMAIN rows : k > Reached => rows[k] = pre[k]
         /\ \A t \in DOMAIN tasks :
                tasks[t].state = "awaiting" => tasks[t].row \in i..(i + batch_size - 1)

\* The second slice is in flight after the first one was merged.
C14Witness ==
    /\ pc = "gather"
    /\ i > 1
    /\ 1 \in called
    /\ rows[1] # pre[1]
    /\ \E t \in DOMAIN tasks : tasks[t].state = "awaiting"

\* The number of requests that were posted and have not come back.
Outstanding == Cardinality({t \in DOMAIN tasks : tasks[t].state = "awaiting"})

-----------------------------------------------------------------------------
(* The Pipeline Orchestrator: orchestrate.main *)

PipeRows == 2

DEFAULT_CONFIG ==
    [cls \in Stages |-> [model_id |-> "gpt-4o-mini", api_base |-> "http://localhost:8000/v1"]]

\* A configuration file that sets everything it can for the strategist only.
StageConfig ==
    [models |->
        [strategist |->
            [model_id |-> "big", api_base |-> "http://strategist/v1", batch_size |-> 8,
             parameters |-> [temperature |-> "0.9", max_tokens |-> 512,
                             batch_size |-> 8]]]]

\* A configuration file with the pipeline-wide sections and one stage entry.
GlobalConfig ==
    [api |-> [base_url |-> "http://global/v1"],
     processing |-> [batch_size |-> 16],
     models |-> [observer |-> [model_id |-> "small",
                               parameters |-> [temperature |-> "0.0"]]]]

\* load_config: the file's content, or DEFAULT_CONFIG without a file.
Configs == {DEFAULT_CONFIG, StageConfig, GlobalConfig}

\* pass_config = config.get("models", {}).get(pass_name, DEFAULT_CONFIG.get(pass_name, {}))
PassConfig(cfg, pass_name) ==
    DictGet(DictGet(cfg, "models", EmptyDict), pass_name,
            DictGet(DEFAULT_CONFIG, pass_name, EmptyDict))

\* The stage instance as main builds it, and the batch_size it passes.
SettingsWith(cfg, pass_config, pass_params) ==
    [model_id    |-> DictGet(pass_config, "model_id", "gpt-4o-mini"),
     api_base    |-> DictGet(DictGet(cfg, "api", EmptyDict), "base_url",
                             "http://localhost:8000/v1"),
     temperature |-> DictGet(pass_params, "temperature", "0.2"),
     max_tokens  |-> DictGet(pass_params, "max_tokens", 2048),
     batch_size  |-> DictGet(DictGet(cfg, "processing", EmptyDict), "batch_size", 64)]

Settings(cfg, pass_name) ==
    SettingsWith(cfg, PassConfig(cfg, pass_name),
                 DictGet(PassConfig(cfg, pass_name), "parameters", EmptyDict))

\* A faulty choice of the output path: every stage writes the final output.
FinalPath(n) == "output"

\* pass_output: args.output for the last stage, a file of temp_dir otherwise.
PassOutput(n) ==
    IF n = Len(PASS_ORDER) THEN "output"
    ELSE "pass_" \o ToString(n) \o "_" \o PASS_ORDER[n]

TempPaths == {PassOutput(n) : n \in 1..(Len(PASS_ORDER) - 1)}

\* shutil.rmtree(temp_dir, ignore_errors=True)
RemoveTemp(st) == [path \in DOMAIN st \ TempPaths |-> st[path]]

\* The caller's input collections: the output of init_dataset, the same with
\* the Observer and Empathizer fields filled, and lines init_dataset did not
\* write.
PipeDatasets == {"fresh", "through2", "foreign"}

ThroughTwo(row) ==
    _process_single("empathizer",
        _process_single("observer", row, Str(ObjectText("observer", "full", "z"))).val,
        Str(ObjectText("empathizer", "full", "z"))).val

PipeRecord(data, n) ==
    CASE data = "fresh" -> StoredRecord("observer", "fresh", n)
      [] data = "through2" -> ThroughTwo(StoredRecord("observer", "fresh", n))
      [] data = "foreign" -> OddRecord(n)

PipeFile(data) == [n \in 1..PipeRows |-> PipeRecord(data, n)]

\* What the external model can answer a stage of the pipeline.
PipeOutcomesOf(cls) ==
    { [kind |-> "http", status |-> 500, content |-> None],
      [kind |-> "http", status |-> 200, content |-> Str(ObjectText(cls, "full", "a"))] }
    \cup {[kind |-> "http", status |-> 200, content |-> Str(t)] : t \in OddReplies(cls)}

PipeOutcomeTable == [cls \in Stages |-> PipeOutcomesOf(cls)]

PipeOutcomes(cls) == PipeOutcomeTable[cls]

\* process_batch as one step.  merged[k] is the outcome of _process_single on
\* row k under the answer given to its request; a skipped row stays as it is.
MergeAll(cls, rws, outcomes) ==
    [k \in DOMAIN rws |->
        IF Skips(cls, rws[k]) THEN Ret(rws[k])
        ELSE _process_single(cls, rws[k], _call_llm(outcomes[k]))]

\* The exception that building the slice raises.
SliceException(cls, rws, k) ==
    IF Raised(_is_already_processed(cls, rws[k]))
    THEN _is_already_processed(cls, rws[k]).exc
    ELSE build_user_prompt(cls, rws[k]).exc

\* The slices from start on: order is results (as indices), reqs the rows
\* for which a request was issued.
RECURSIVE Slices(_, _, _, _, _, _, _)
Slices(cls, rws, merged, start, size, order, reqs) ==
    IF start > Len(rws) THEN [exc |-> "none", order |-> order, called |-> reqs]
    ELSE IF SliceRaises(cls, rws, Batch(rws, start, size))
    THEN [exc |-> SliceException(cls, rws,
                      SetMin({k \in Range(Batch(rws, start, size)) :
                                 \/ Raised(_is_already_processed(cls, rws[k]))
                                 \/ Raised(build_user_prompt(cls, rws[k]))})),
          order |-> order, called |-> reqs]
    ELSE IF \E k \in Range(Pending(cls, rws, Batch(rws, start, size))) : Raised(merged[k])
    THEN [exc |-> merged[SetMin({k \in Range(Pending(cls, rws, Batch(rws, start, size))) :
                                    Raised(merged[k])})].exc,
          order |-> order,
          called |-> reqs \cup Range(Pending(cls, rws, Batch(rws, start, size)))]
    ELSE Slices(cls, rws, merged, start + size, size,
                order \o Satisfied(cls, rws, Batch(rws, start, size))
                      \o Pending(cls, rws, Batch(rws, start, size)),
                reqs \cup Range(Pending(cls, rws, Batch(rws, start, size))))

\* run_file: what it raises, the collection it writes and the requests issued.
RunWith(merged, walk) ==
    [exc |-> walk.exc,
     wrote |-> IF walk.exc = "none"
               THEN [k \in DOMAIN walk.order |-> merged[walk.order[k]].val]
               ELSE <<>>,
     called |-> walk.called]

run_file(cls, rws, outcomes, size) ==
    RunWith(MergeAll(cls, rws, outcomes),
            Slices(cls, rws, MergeAll(cls, rws, outcomes), 1, size, <<>>, {}))

\* main up to the loop: the arguments are parsed, temp_dir is created.
StartMain(s) ==
    /\ opc = "idle"
    /\ start_from' = s
    /\ pass_i' = 1
    /\ current_input' = "input"
    /\ opc' = "loop"
    /\ UNCHANGED <<stage, dataset, file, runs, pc, batch_size, rows, results, i, tasks,
                   session, pre, called, sat, completed, det, memo, fn, arg, out,
                   config, store, log, ontoVars>>

\* if i < args.start_from: continue
SkipPass ==
    /\ opc = "loop"
    /\ pass_i <= Len(PASS_ORDER)
    /\ pass_i < start_from
    /\ pass_i' = pass_i + 1
    /\ UNCHANGED <<stage, dataset, file, runs, pc, batch_size, rows, results, i, tasks,
                   session, pre, called, sat, completed, det, memo, fn, arg, out,
                   config, start_from, current_input, store, log, opc, ontoVars>>

\* The log entry of a stage run.
Entry(n, settings, outcomes, r) ==
    [i |-> n, pass_name |-> PASS_ORDER[n], input |-> current_input,
     read |-> store[current_input], output |-> PassOutput(n), settings |-> settings,
     outcomes |-> outcomes, exc |-> r.exc, wrote |-> r.wrote, called |-> r.called]

\* One stage: the instance is built from the configuration and run_file runs
\* to its end.  If it raises, the exception leaves main through the finally
\* clause, which removes temp_dir.
RunStage(outcomes, r) ==
    /\ log' = Append(log, Entry(pass_i, Settings(config, PASS_ORDER[pass_i]), outcomes, r))
    /\ IF r.exc = "none"
       THEN /\ store' = [path \in DOMAIN store \cup {PassOutput(pass_i)} |->
                            IF path = PassOutput(pass_i) THEN r.wrote ELSE store[path]]
            /\ current_input' = PassOutput(pass_i)
            /\ pass_i' = pass_i + 1
            /\ opc' = "loop"
       ELSE /\ store' = RemoveTemp(store)
            /\ opc' = "failed"
            /\ UNCHANGED <<current_input, pass_i>>

RunPass ==
    /\ opc = "loop"
    /\ pass_i <= Len(PASS_ORDER)
    /\ pass_i >= start_from
    /\ \E outcomes \in [DOMAIN store[current_input] -> PipeOutcomes(PASS_ORDER[pass_i])] :
          RunStage(outcomes,
                   run_file(PASS_ORDER[pass_i], store[current_input], outcomes,
                            Settings(config, PASS_ORDER[pass_i]).batch_size))
    /\ UNCHANGED <<stage, dataset, file, runs, pc, batch_size, rows, results, i, tasks,
                   session, pre, called, sat, completed, det, memo, fn, arg, out,
                   config, start_from, ontoVars>>

\* The loop is over: main reports and the finally clause removes temp_dir.
EndMain ==
    /\ opc = "loop"
    /\ pass_i > Len(PASS_ORDER)
    /\ store' = RemoveTemp(store)
    /\ opc' = "done"
    /\ UNCHANGED <<stage, dataset, file, runs, pc, batch_size, rows, results, i, tasks,
                   session, pre, called, sat, completed, det, memo, fn, arg, out,
                   config, start_from, pass_i, current_input, log, ontoVars>>

InitPipe ==
    /\ AtRest
    /\ dataset \in PipeDatasets
    /\ fn = "none"
    /\ arg = NoArg
    /\ out = NoCall
    /\ config \in Configs
    /\ start_from = 1
    /\ pass_i = 1
    /\ current_input = "none"
    /\ store = [path \in {"input"} |-> PipeFile(dataset)]
    /\ log = <<>>
    /\ opc = "idle"
    /\ OntoAtRest

NextPipe ==
    \/ \E s \in 1..Len(PASS_ORDER) : StartMain(s)
    \/ SkipPass
    \/ RunPass
    \/ EndMain

SpecPipe == InitPipe /\ [][NextPipe]_vars

\* C16: started at index s in 1..4, main runs the stages s..4 of PASS_ORDER in
\* order, each at most once (all of them when it completes); the first stage
\* run reads the caller's input, each later one reads the collection the one
\* before it wrote, and only the last stage (Critic) writes to the caller's
\* output path.
C16StagesInOrder ==
    /\ Len(log) <= Len(PASS_ORDER) - start_from + 1
    /\ opc = "done" => Len(log) = Len(PASS_ORDER) - start_from + 1
    /\ \A k \in DOMAIN log :
          /\ log[k].i = start_from + k - 1
          /\ log[k].pass_name = PASS_ORDER[log[k].i]
          /\ k < Len(log) => log[k].exc = "none"
          /\ IF k = 1
             THEN log[k].input = "input" /\ log[k].read = PipeFile(dataset)
             ELSE log[k].input = log[k - 1].output /\ log[k].read = log[k - 1].wrote
          /\ log[k].output = "output" <=> log[k].pass_name = "critic"
    /\ store["input"] = PipeFile(dataset)
    /\ "output" \in DOMAIN store =>
          /\ log # <<>>
          /\ log[Len(log)].pass_name = "critic"
          /\ log[Len(log)].exc = "none"
          /\ store["output"] = log[Len(log)].wrote

\* A pipeline started at the Empathizer that has run its three stages and
\* written the output.
C16Witness ==
    /\ opc = "done"
    /\ start_from = 2
    /\ Len(log) = 3
    /\ log[1].pass_name = "empathizer"
    /\ log[2].read # PipeFile(dataset)
    /\ "output" \in DOMAIN store

\* Every Observer and Empathizer owned path of every record is non-null.
ThroughStageTwo(rws) ==
    \A k \in DOMAIN rws : AllNonNull("observer", rws[k]) /\ AllNonNull("empathizer", rws[k])

\* The collection that the Strategist and the Critic alone make of rws under
\* the answers logged in entries s and c.
LastTwoStages(rws, s, c) ==
    run_file("critic",
             run_file("strategist", rws, s.outcomes, s.settings.batch_size).wrote,
             c.outcomes, c.settings.batch_size).wrote

\* C17: on records populated through stage 2, a pipeline started at index 3
\* and one started at index 1 issue no Observer or Empathizer request and end
\* with the same records: those that the Strategist and the Critic make of the
\* input under the answers they were given.
C17ResumeEqualsFullRun ==
    (opc = "done" /\ start_from \in {1, 3} /\ ThroughStageTwo(PipeFile(dataset))) =>
        /\ \A k \in DOMAIN log :
              log[k].pass_name \in {"observer", "empathizer"} => log[k].called = {}
        /\ store["output"] =
              LastTwoStages(PipeFile(dataset), log[Len(log) - 1], log[Len(log)])

\* A full run over records populated through stage 2: the first two stages
\* ask nothing, the last two annotate the records.
C17Witness ==
    /\ opc = "done"
    /\ start_from = 1
    /\ ThroughStageTwo(PipeFile(dataset))
    /\ log[1].called = {} /\ log[2].called = {}
    /\ log[3].called # {} /\ log[4].called # {}
    /\ store["output"] # PipeFile(dataset)
    /\ \A k \in DOMAIN store["output"] : AllNonNull("critic", store["output"][k])

\* The settings of a stage run that the caller can override.
SettingNames == {"model_id", "api_base", "temperature", "max_tokens", "batch_size"}

\* The entry of a stage in the "models" section of the configuration.
StageEntry(cfg, cls) == DictGet(DictGet(cfg, "models", EmptyDict), cls, EmptyDict)

\* Whether the configuration supplies a value of the setting for the stage,
\* in the stage's entry or in its "parameters".
Supplied(cfg, cls, name) ==
    \/ name \in DOMAIN StageEntry(cfg, cls)
    \/ name \in DOMAIN DictGet(StageEntry(cfg, cls), "parameters", EmptyDict)

Override(cfg, cls, name) ==
    IF name \in DOMAIN DictGet(StageEntry(cfg, cls), "parameters", EmptyDict)
    THEN StageEntry(cfg, cls).parameters[name]
    ELSE StageEntry(cfg, cls)[name]

\* C18: for each of model, endpoint, temperature, token limit and batch size,
\* a value that the configuration supplies for a stage is in effect during
\* that stage's run, and is not in effect during the run of another stage
\* for which nothing is supplied.
C18OverridesPerStage ==
    \A k \in DOMAIN log : \A name \in SettingNames :
        /\ Supplied(config, log[k].pass_name, name) =>
              log[k].settings[name] = Override(config, log[k].pass_name, name)
        /\ \A other \in Stages \ {log[k].pass_name} :
              (Supplied(config, other, name) /\ ~Supplied(config, log[k].pass_name, name))
                  => log[k].settings[name] # Override(config, other, name)

-----------------------------------------------------------------------------
(* The Ontology Loader and the Prompt Assembler of one stage instance *)

MaxProbes == 10

RequiredTable ==
    [ observer   |-> <<"judgment_markers_ontology">>,
      empathizer |-> <<"feelings_ontology", "needs_ontology", "pseudo_feelings_lexicon">>,
      strategist |-> <<"plato_strategy_filter", "request_quality_ontology">>,
      critic     |-> <<"feelings_ontology", "needs_ontology", "pseudo_feelings_lexicon",
                       "judgment_markers_ontology", "somatic_markers_ontology">> ]

REQUIRED_ONTOLOGIES(cls) == RequiredTable[cls]

PROMPT_FILE(cls) == "pass_" \o cls \o ".txt"

\* json.load(f) of the ontology file of a name.
Document(name) == Map([ontology |-> Str(<<name>>)])

\* A faulty loader that opens every required file without testing that it
\* exists.
OpenAll(dir, names) ==
    IF Range(names) \subseteq dir
    THEN Ret([name \in Range(names) |-> Document(name)])
    ELSE [exc |-> "FileNotFoundError", val |-> EmptyDict]

\* The loop of load_ontologies: the files that exist are loaded, the others
\* are reported and left out.
LoadExisting(dir, names) == Ret([name \in Range(names) \cap dir |-> Document(name)])

\* load_ontologies: the cache if it is non-empty, else the loop; probed is the
\* sequence of names whose file the call looked for.
LoadOrCached(cache, loaded, names) ==
    IF DOMAIN cache # {}
    THEN [exc |-> "none", val |-> cache, probed |-> <<>>]
    ELSE [exc |-> loaded.exc, val |-> loaded.val, probed |-> names]

load_ontologies(cache, dir, names) == LoadOrCached(cache, LoadExisting(dir, names), names)

\* _build_ontology_section over the loaded ontologies, in the order of their
\* insertion: "" if there is none, else the header and one labelled section
\* for each.
RECURSIVE Sections(_)
Sections(names) ==
    IF names = <<>> THEN <<>>
    ELSE <<"\n", "### " \o Head(names), "relevant data of " \o Head(names)>>
         \o Sections(Tail(names))

_build_ontology_section(ontologies, names) ==
    IF DOMAIN ontologies = {} THEN <<>>
    ELSE <<"== ONTOLOGIES =="\o "\n">>
         \o Sections(SelectSeq(names, LAMBDA name : name \in DOMAIN ontologies))

\* The fixed instruction text: the prompt file if it exists, else the
\* stage's _default_system_prompt().
BasePrompt(cls, dir) ==
    IF PROMPT_FILE(cls) \in dir THEN <<"text of " \o PROMPT_FILE(cls)>>
    ELSE <<"default prompt of " \o cls>>

\* A faulty test that builds the instruction string on every read.
AlwaysAssembles(prompt) == TRUE

\* The test of the system_prompt property: the string is built only while
\* none is kept.
NeedsAssembly(prompt) == IsNone(prompt)

\* A call of load_ontologies on the stage instance.
LoadOntologies(r) ==
    /\ Len(probes) < MaxProbes
    /\ fn' = "load_ontologies"
    /\ _ontologies' = r.val
    /\ probes' = probes \o r.probed
    /\ out' = [exc |-> r.exc, val |-> Map(r.val)]
    /\ UNCHANGED <<stage, dataset, file, runs, pc, batch_size, rows, results, i, tasks,
                   session, pre, called, sat, completed, det, memo, arg, pipeVars,
                   ontologies_dir, prompts_dir, _system_prompt, payloads, assembled>>

\* A read of the system_prompt property: assembled on the first read, with
\* the ontologies that load_ontologies returns, and kept.
SystemPrompt(r) ==
    /\ Len(probes) < MaxProbes
    /\ fn' = "system_prompt"
    /\ IF ~NeedsAssembly(_system_prompt)
       THEN /\ out' = Ret(_system_prompt)
            /\ UNCHANGED <<_ontologies, probes, _system_prompt, assembled>>
       ELSE /\ _ontologies' = r.val
            /\ probes' = probes \o r.probed
            /\ IF r.exc # "none"
               THEN /\ out' = [exc |-> r.exc, val |-> None]
                    /\ UNCHANGED <<_system_prompt, assembled>>
               ELSE /\ _system_prompt' =
                          Str(BasePrompt(stage, prompts_dir) \o <<"\n\n">>
                              \o _build_ontology_section(r.val, REQUIRED_ONTOLOGIES(stage)))
                    /\ assembled' = assembled + 1
                    /\ out' = Ret(_system_prompt')
    /\ UNCHANGED <<stage, dataset, file, runs, pc, batch_size, rows, results, i, tasks,
                   session, pre, called, sat, completed, det, memo, arg, pipeVars,
                   ontologies_dir, prompts_dir, payloads>>

\* A new stage instance in front of a storage that holds any of the files.
InitOnto ==
    /\ stage \in Stages
    /\ dataset = "fresh"
    /\ file = <<>>
    /\ runs = 0
    /\ pc = "idle"
    /\ batch_size = 1
    /\ rows = <<>>
    /\ results = <<>>
    /\ i = 1
    /\ tasks = <<>>
    /\ session = "none"
    /\ pre = <<>>
    /\ called = {}
    /\ sat = {}
    /\ completed = 0
    /\ det = FALSE
    /\ memo = EmptyDict
    /\ fn = "none"
    /\ arg = NoArg
    /\ out = NoCall
    /\ PipeAtRest
    /\ ontologies_dir \in SUBSET Range(REQUIRED_ONTOLOGIES(stage))
    /\ prompts_dir \in SUBSET {PROMPT_FILE(stage)}
    /\ _ontologies = EmptyDict
    /\ _system_prompt = None
    /\ probes = <<>>
    /\ payloads = <<>>
    /\ assembled = 0

NextOnto ==
    \/ LoadOntologies(load_ontologies(_ontologies, ontologies_dir,
                                      REQUIRED_ONTOLOGIES(stage)))
    \/ SystemPrompt(load_ontologies(_ontologies, ontologies_dir,
                                    REQUIRED_ONTOLOGIES(stage)))

SpecOnto == InitOnto /\ [][NextOnto]_vars

\* C19: load_ontologies is idempotent whatever the storage holds: the first
\* call looks for each required file once, and every later call returns the
\* set of the first call without looking at the storage again.
C19LoadIdempotent ==
    fn # "none" =>
        /\ probes = REQUIRED_ONTOLOGIES(stage)
        /\ DOMAIN _ontologies = Range(REQUIRED_ONTOLOGIES(stage)) \cap ontologies_dir

\* C20: a missing ontology file never fails the stage: load_ontologies
\* completes, the cache holds exactly the required names whose file exists,
\* and the system prompt is produced, with an empty ontology section when no
\* file exists.
C20MissingIsNotFatal ==
    fn # "none" =>
        /\ ~Raised(out)
        /\ DOMAIN _ontologies = Range(REQUIRED_ONTOLOGIES(stage)) \cap ontologies_dir
        /\ fn = "load_ontologies" => out.val = Map(_ontologies)
        /\ fn = "system_prompt" =>
              /\ out.val = _system_prompt
              /\ SubSeq(_system_prompt.s, 1, 2) = BasePrompt(stage, prompts_dir) \o <<"\n\n">>
              /\ (Len(_system_prompt.s) = 2) <=> (Range(REQUIRED_ONTOLOGIES(stage)) \cap ontologies_dir = {})
              /\ \A name \in DOMAIN _ontologies :
                    \E k \in DOMAIN _system_prompt.s : _system_prompt.s[k] = "### " \o name

\* The critic's prompt with two of its five ontology files missing.
C20Witness ==
    /\ fn = "system_prompt"
    /\ stage = "critic"
    /\ Cardinality(ontologies_dir) = 3
    /\ DOMAIN _ontologies = ontologies_dir
    /\ ~IsNone(_system_prompt)
    /\ Len(_system_prompt.s) > 2

-----------------------------------------------------------------------------
(* The instruction string carried by the requests of one stage instance *)

MaxRequests == 3

\* The head of _call_llm up to its first await: the payload is built, its
\* system message read from the system_prompt property.  Nothing is awaited
\* between the test of the property and its assignment, so the tasks of a
\* slice run this step one after the other, in any order.
BuildPayload(r) ==
    /\ Len(payloads) < MaxRequests
    /\ fn' = "_call_llm"
    /\ IF ~NeedsAssembly(_system_prompt)
       THEN /\ payloads' = Append(payloads, _system_prompt)
            /\ out' = Ret(_system_prompt)
            /\ UNCHANGED <<_ontologies, probes, _system_prompt, assembled>>
       ELSE /\ _ontologies' = r.val
            /\ probes' = probes \o r.probed
            /\ IF r.exc # "none"
               THEN /\ out' = [exc |-> r.exc, val |-> None]
                    /\ UNCHANGED <<_system_prompt, assembled, payloads>>
               ELSE /\ _system_prompt' =
                          Str(BasePrompt(stage, prompts_dir) \o <<"\n\n">>
                              \o _build_ontology_section(r.val, REQUIRED_ONTOLOGIES(stage)))
                    /\ assembled' = assembled + 1
                    /\ payloads' = Append(payloads, _system_prompt')
                    /\ out' = Ret(_system_prompt')
    /\ UNCHANGED <<stage, dataset, file, runs, pc, batch_size, rows, results, i, tasks,
                   session, pre, called, sat, completed, det, memo, arg, pipeVars,
                   ontologies_dir, prompts_dir>>

\* The holder of the instance replaces its ontology cache after the
\* instruction string was read for the first time.
SetOntologies(names) ==
    /\ ~IsNone(_system_prompt)
    /\ names # DOMAIN _ontologies
    /\ fn' = "set_ontologies"
    /\ _ontologies' = [name \in names |-> Document(name)]
    /\ out' = Ret(Map(_ontologies'))
    /\ UNCHANGED <<stage, dataset, file, runs, pc, batch_size, rows, results, i, tasks,
                   session, pre, called, sat, completed, det, memo, arg, pipeVars,
                   ontologies_dir, prompts_dir, _system_prompt, probes, payloads,
                   assembled>>

NextPrompt ==
    \/ NextOnto
    \/ BuildPayload(load_ontologies(_ontologies, ontologies_dir,
                                    REQUIRED_ONTOLOGIES(stage)))
    \/ \E names \in SUBSET Range(REQUIRED_ONTOLOGIES(stage)) : SetOntologies(names)

SpecPrompt == InitOnto /\ [][NextPrompt]_vars

\* C21: the instruction string of a stage instance is built at most once,
\* whichever task of a slice reads it first; every request built so far
\* carries the string the instance keeps, so all requests carry the same
\* one, and a later change of the ontology cache does not change it.
C21PromptBuiltOnce ==
    /\ assembled <= 1
    /\ (assembled = 1) <=> ~IsNone(_system_prompt)
    /\ \A k \in DOMAIN payloads : payloads[k] = _system_prompt
    /\ \A k, l \in DOMAIN payloads : payloads[k] = payloads[l]

\* Three requests of one instance, the cache emptied after the string was
\* built from two ontologies.
C21Witness ==
    /\ Len(payloads) = MaxRequests
    /\ assembled = 1
    /\ _ontologies = EmptyDict
    /\ Cardinality(ontologies_dir) = 2
    /\ Len(_system_prompt.s) > 2
    /\ fn = "_call_llm"

-----------------------------------------------------------------------------
(* The output of a run, the session of a run, and the order of the results *)

\* C22: the stored collection changes only in the step that follows the
\* return of process_batch, when every slice of the input has been gathered;
\* no slice, reply or exception of a run changes it before.
C22WrittenOnlyAfterAllSlices ==
    [][(file' # file \/ completed' # completed)
          => /\ pc = "returned"
             /\ i > Len(rows)
             /\ Len(results) = Len(rows)
             /\ tasks = <<>>
             /\ completed' = completed + 1]_vars

\* A run that merged the reply of its first slice and raised in the second:
\* the rows in memory have changed, the stored collection has not.
C22Witness ==
    /\ pc = "raised"
    /\ results # <<>>
    /\ rows # pre
    /\ file = pre
    /\ completed = 0

\* C23: the session is open exactly while process_batch is running its
\* slices, so every request of every slice is posted on the session opened
\* at the start, and it is closed once process_batch has returned or an
\* exception has left it.
C23SessionScopedToRun ==
    /\ pc \in {"slice", "gather"} => session = "open"
    /\ pc \in {"raised", "returned"} => session = "closed"
    /\ pc = "idle" => session = (IF runs = 0 THEN "none" ELSE "closed")
    /\ \A t \in DOMAIN tasks : tasks[t].state = "awaiting" => session = "open"

\* An exception left the second slice while another task was waiting: the
\* session is closed.
C23Witness ==
    /\ pc = "raised"
    /\ session = "closed"
    /\ \E t \in DOMAIN tasks : tasks[t].state = "raised"
    /\ \E t \in DOMAIN tasks : tasks[t].state = "cancelled"

\* The indices of rws from start on in the order process_batch returns them
\* for slices of `size`: slice after slice, in each slice the rows whose
\* owned fields are all non-null in input order, then the others in input
\* order.
RECURSIVE SliceOrder(_, _, _, _)
SliceOrder(cls, rws, start, size) ==
    IF start > Len(rws) THEN <<>>
    ELSE SelectSeq(Batch(rws, start, size), LAMBDA k : AllNonNull(cls, rws[k]))
         \o SelectSeq(Batch(rws, start, size), LAMBDA k : ~AllNonNull(cls, rws[k]))
         \o SliceOrder(cls, rws, start + size, size)

\* C26: what process_batch returns holds every input record exactly once,
\* slice after slice, and in each slice the already satisfied records in
\* input order followed by the processed records in submission order.
C26EveryRecordOnceInSliceOrder ==
    pc = "returned" =>
        /\ Len(results) = Len(rows)
        /\ Len(rows) = Len(pre)
        /\ {results[k] : k \in DOMAIN results} = DOMAIN rows
        /\ \A k, l \in DOMAIN results : results[k] = results[l] => k = l
        /\ results = SliceOrder(stage, pre, 1, batch_size)

\* A slice of two whose second record was already satisfied: it is returned
\* before the first one, which was processed.
C26Witness ==
    /\ pc = "returned"
    /\ batch_size = 2
    /\ results = <<2, 1>>
    /\ called = {1}
    /\ sat = {2}

-----------------------------------------------------------------------------
(* The dataset initializer: init_jsonl_file and init_json_array_file *)

MaxLines == 3

\* What the source holds: lines (or array elements) that decode to an object
\* and text that does not decode.
Sources == UNION { [1..n -> {"object", "broken"}] : n \in 1..MaxLines }

\* json.load of the whole red-team source: it raises when any of it does not
\* decode, before the target is opened.
LoadArray ==
    /\ pc = "load"
    /\ pc' = IF "broken" \in Range(rows) THEN "raised" ELSE "init"
    /\ UNCHANGED <<stage, dataset, file, runs, batch_size, rows, results, i, tasks,
                   session, pre, called, sat, completed, det, memo, fn, arg, out,
                   pipeVars, ontoVars>>

\* One pass of the loop over the source: a line that does not decode is
\* skipped, for the others the record is created with the number of the
\* line and written to the target.
InitRecord ==
    /\ pc = "init"
    /\ i <= Len(rows)
    /\ i' = i + 1
    /\ file' = IF rows[i] = "broken" THEN file
               ELSE IF fn = "init_jsonl_file" THEN Append(file, create_record_pair(i))
               ELSE Append(file, create_record_redteam(i))
    /\ UNCHANGED <<stage, dataset, runs, pc, batch_size, rows, results, tasks,
                   session, pre, called, sat, completed, det, memo, fn, arg, out,
                   pipeVars, ontoVars>>

\* The source is exhausted and the target closed.
InitDone ==
    /\ pc = "init"
    /\ i > Len(rows)
    /\ pc' = "done"
    /\ UNCHANGED <<stage, dataset, file, runs, batch_size, rows, results, i, tasks,
                   session, pre, called, sat, completed, det, memo, fn, arg, out,
                   pipeVars, ontoVars>>

\* The stage looks at record k of the target as the loop of process_batch does.
LookAt(k) ==
    /\ pc = "done"
    /\ k \in DOMAIN file
    /\ arg' = [obj |-> file[k], path |-> <<>>]
    /\ out' = _is_already_processed(stage, file[k])
    /\ UNCHANGED <<stage, dataset, file, runs, pc, batch_size, rows, results, i,
                   tasks, session, pre, called, sat, completed, det, memo, fn,
                   pipeVars, ontoVars>>

InitDataset ==
    /\ stage \in Stages
    /\ dataset = "fresh"
    /\ fn \in {"init_jsonl_file", "init_json_array_file"}
    /\ pc = IF fn = "init_jsonl_file" THEN "init" ELSE "load"
    /\ rows \in Sources
    /\ file = <<>>
    /\ runs = 0
    /\ batch_size = 1
    /\ results = <<>>
    /\ i = 1
    /\ tasks = <<>>
    /\ session = "none"
    /\ pre = <<>>
    /\ called = {}
    /\ sat = {}
    /\ completed = 0
    /\ det = FALSE
    /\ memo = EmptyDict
    /\ arg = NoArg
    /\ out = NoCall
    /\ PipeAtRest
    /\ OntoAtRest

NextDataset ==
    \/ LoadArray
    \/ InitRecord
    \/ InitDone
    \/ \E k \in 1..MaxLines : LookAt(k)

SpecDataset == InitDataset /\ [][NextDataset]_vars

\* Every path that any stage owns.
AllOwnedPaths == UNION { Range(OUTPUT_FIELDS(cls)) : cls \in Stages }

\* The record holds the namespace of the path, and the namespace the field.
Present(row, keys) ==
    /\ IsMap(row)
    /\ keys[1] \in DOMAIN row.m
    /\ IsMap(row.m[keys[1]])
    /\ keys[2] \in DOMAIN row.m[keys[1]].m

\* C24: every record the initializer writes, of either format, holds every
\* path owned by any of the four stages with the value null, and none of the
\* four stages finds it already processed.
C24CreatedWithEveryOwnedField ==
    /\ \A k \in DOMAIN file :
          /\ \A path \in AllOwnedPaths :
                /\ Len(Split(path)) = 2
                /\ Present(file[k], Split(path))
                /\ file[k].m[Split(path)[1]].m[Split(path)[2]] = None
          /\ \A cls \in Stages : _is_already_processed(cls, file[k]) = Ret(Bool(FALSE))
    /\ out # NoCall => out = Ret(Bool(FALSE))

\* The critic has looked at the third record of a red-team target.
C24Witness ==
    /\ fn = "init_json_array_file"
    /\ stage = "critic"
    /\ pc = "done"
    /\ Len(file) = MaxLines
    /\ arg.obj = file[MaxLines]
    /\ out = Ret(Bool(FALSE))

-----------------------------------------------------------------------------
(* The read loop of run_file: the lines of the input and the row limit *)

\* A line that json.loads rejects.
Malformed == [t |-> "malformed"]

\* The inputs of the read: up to MaxLines lines, each a record or malformed.
InputFiles ==
    UNION { {[k \in 1..n |-> IF kinds[k] = "object" THEN create_record_pair(k)
                             ELSE Malformed] : kinds \in [1..n -> {"object", "broken"}]}
            : n \in 0..MaxLines }

\* The values of the limit argument: None (the default) or a number of rows.
Limits == {None} \cup {Num(n) : n \in 0..MaxLines}

\* `if limit and i >= limit` for the line at index i of enumerate (from 0).
LimitReached(limit, n) == Truthy(limit) /\ n >= limit.n

\* One pass of `for i, line in enumerate(f)`: the loop is left when the limit
\* is reached, else the line is decoded and appended, or skipped when it
\* does not decode.
ReadLine ==
    /\ pc = "read"
    /\ i <= Len(file)
    /\ IF LimitReached(arg.obj, i - 1)
       THEN /\ pc' = "loaded"
            /\ UNCHANGED <<rows, i>>
       ELSE /\ rows' = IF file[i] = Malformed THEN rows ELSE Append(rows, file[i])
            /\ i' = i + 1
            /\ pc' = pc
    /\ UNCHANGED <<stage, dataset, file, runs, batch_size, results, tasks, session,
                   pre, called, sat, completed, det, memo, fn, arg, out,
                   pipeVars, ontoVars>>

\* The input is exhausted.
ReadEnd ==
    /\ pc = "read"
    /\ i > Len(file)
    /\ pc' = "loaded"
    /\ UNCHANGED <<stage, dataset, file, runs, batch_size, rows, results, i, tasks,
                   session, pre, called, sat, completed, det, memo, fn, arg, out,
                   pipeVars, ontoVars>>

InitRead ==
    /\ stage \in Stages
    /\ dataset = "fresh"
    /\ fn = "run_file"
    /\ pc = "read"
    /\ file \in InputFiles
    /\ arg \in {[obj |-> limit, path |-> <<>>] : limit \in Limits}
    /\ rows = <<>>
    /\ runs = 0
    /\ batch_size = 1
    /\ results = <<>>
    /\ i = 1
    /\ tasks = <<>>
    /\ session = "none"
    /\ pre = <<>>
    /\ called = {}
    /\ sat = {}
    /\ completed = 0
    /\ det = FALSE
    /\ memo = EmptyDict
    /\ out = NoCall
    /\ PipeAtRest
    /\ OntoAtRest

NextRead ==
    \/ ReadLine
    \/ ReadEnd

SpecRead == InitRead /\ [][NextRead]_vars

\* C25: with a row limit N >= 0 the read loads at most N records; whatever
\* the lines are, the loaded collection is the lines that decode among those
\* read, in file order.
C25LimitBoundsTheRead ==
    /\ rows = SelectSeq(SubSeq(file, 1, i - 1), LAMBDA line : line # Malformed)
    /\ (pc = "loaded" /\ ~IsNone(arg.obj)) => Len(rows) <= arg.obj.n

-----------------------------------------------------------------------------
(* Parse defaults and the Already-satisfied test *)

\* The object a parse line reads its key from: the reply object, or the
\* sub-object of the line with the default {}.
SourceOf(data, line) ==
    IF line.src = "data" THEN data ELSE DictGet(data.m, line.src, Map(EmptyDict))

\* The reply object omits the key of the line.
Omits(data, line) == line.key \notin DOMAIN SourceOf(data, line).m

\* Every list-typed line whose key the reply omits is an empty list in the
\* record and counts as a value.
OmittedListsWritten(row, data, lines) ==
    \A n \in DOMAIN lines :
        (IsListLine(lines[n]) /\ Omits(data, lines[n]))
            => /\ _get_nested(row, lines[n].path) = Ret(List(<<>>))
               /\ HasValue(row, lines[n].path)

\* C27: after a stage has merged a non-empty reply, every list-typed owned
\* field that the reply's object omits holds an empty list and counts as
\* non-null; and for Observer the record is already satisfied, whatever the
\* non-empty reply was.
C27DefaultListsSatisfy ==
    \A t \in DOMAIN tasks :
        Merged(t) =>
            /\ OmittedListsWritten(rows[tasks[t].row],
                                   _extract_json(tasks[t].response.s).val,
                                   ParseLines(stage))
            /\ stage = "observer" =>
                  _is_already_processed(stage, rows[tasks[t].row]) = Ret(Bool(TRUE))

-----------------------------------------------------------------------------
(* What the request of a record depends on *)

\* The position of a stage in PASS_ORDER.
OrderOf(cls) == CHOOSE n \in DOMAIN PASS_ORDER : PASS_ORDER[n] = cls

\* The paths owned by the stages strictly earlier than cls.
UpstreamPaths(cls) ==
    UNION { Range(OUTPUT_FIELDS(PASS_ORDER[n])) : n \in 1..(OrderOf(cls) - 1) }

\* The namespaces in which an earlier stage owns a path.
UpstreamSpaces(cls) == { Split(path)[1] : path \in UpstreamPaths(cls) }

\* The part of a namespace that earlier stages own (a value that is not an
\* object is kept as it is).
UpstreamPart(paths, ns, value) ==
    IF IsMap(value)
    THEN Map([f \in {g \in DOMAIN value.m : Path(ns, g) \in paths} |-> value.m[f]])
    ELSE value

\* The record reduced to its input namespace and to the fields owned by
\* earlier stages: its id, the stage's own fields and the fields of later
\* stages are gone.
Upstream(cls, row) ==
    IF ~IsMap(row) THEN row
    ELSE Map([ns \in DOMAIN row.m \cap ({"input"} \cup UpstreamSpaces(cls)) |->
                IF ns = "input" THEN row.m[ns]
                ELSE UpstreamPart(UpstreamPaths(cls), ns, row.m[ns])])

\* C28: the request built for a record is the one built for the record
\* reduced to its input namespace and the fields of earlier stages, for the
\* records as read, as merged and as stored; so it does not depend on the
\* stage's own fields.  Building the requests of a slice changes no record.
C28PromptReadsOnlyUpstream ==
    /\ [](/\ \A k \in DOMAIN rows :
                build_user_prompt(stage, rows[k]) = build_user_prompt(stage, Upstream(stage, rows[k]))
          /\ \A k \in DOMAIN file :
                build_user_prompt(stage, file[k]) = build_user_prompt(stage, Upstream(stage, file[k]))
          /\ \A t \in DOMAIN tasks :
                tasks[t].user_prompt
                    = build_user_prompt(stage, Upstream(stage, pre[tasks[t].row])).val)
    /\ [][pc = "slice" => rows' = rows]_vars

\* A second run of the strategist over a record whose own fields the first
\* run has partly filled: the request is the one of the reduced record.
C28Witness ==
    /\ runs = 2
    /\ stage = "strategist"
    /\ \E t \in DOMAIN tasks :
          /\ tasks[t].state = "awaiting"
          /\ HasValue(rows[tasks[t].row], OUTPUT_FIELDS(stage)[2])
          /\ HasValue(rows[tasks[t].row], Path("ofnr", "feelings"))
          /\ rows[tasks[t].row] # Upstream(stage, rows[tasks[t].row])
          /\ tasks[t].user_prompt
                = build_user_prompt(stage, Upstream(stage, rows[tasks[t].row])).val

-----------------------------------------------------------------------------
(* The owned paths of the four stages against each other *)

\* No path is in the OUTPUT_FIELDS of two stages.
DisjointOwnership ==
    \A a, b \in Stages : a # b => OwnedBy(a) \cap OwnedBy(b) = {}

\* The segments of an owned path are not the first segments of another.
NoOwnedPathThroughAnother ==
    \A a, b \in Stages : \A p \in OwnedBy(a) : \A q \in OwnedBy(b) :
        p # q => ~IsPrefix(Split(p), Split(q))

\* C29: no path is owned by two stages and no owned path leads through
\* another owned path; so in a run of one stage every path owned by another
\* stage reads as before, and no other stage's Already-satisfied test
\* changes its answer.
C29OwnedPathsApart ==
    /\ DisjointOwnership
    /\ NoOwnedPathThroughAnother
    /\ \A k \in DOMAIN rows : \A other \in Stages \ {stage} :
          /\ \A p \in OwnedBy(other) : _get_nested(rows[k], p) = _get_nested(pre[k], p)
          /\ _is_already_processed(other, rows[k]) = _is_already_processed(other, pre[k])

\* The empathizer has merged a reply into a record that the three other
\* stages had annotated: they still find it processed.
C29Witness ==
    /\ stage = "empathizer"
    /\ \E k \in DOMAIN rows :
          /\ rows[k] # pre[k]
          /\ \A other \in Stages \ {stage} :
                _is_already_processed(other, rows[k]) = Ret(Bool(TRUE))

-----------------------------------------------------------------------------
(* Runs of single stages one after the other over the same collection *)

MaxStageRuns == 3

\* The records of the collection that a stage finds already satisfied, each
\* as the pair of its id and the stage.
SatisfiedPairs(rws) ==
    { <<rws[p[1]].m["id"], p[2]>> :
        p \in { q \in (DOMAIN rws) \X Stages :
                    _is_already_processed(q[2], rws[q[1]]) = Ret(Bool(TRUE)) } }

\* One invocation of run_pass.main: a new instance of the stage runs run_file
\* over the collection; what it writes is what the next invocation reads.  A
\* run that raises writes nothing.
StageRun(cls, r) ==
    /\ runs < MaxStageRuns
    /\ runs' = runs + 1
    /\ stage' = cls
    /\ pre' = file
    /\ file' = IF r.exc = "none" THEN r.wrote ELSE file
    /\ called' = r.called
    /\ sat' = sat \cup SatisfiedPairs(file)
    /\ completed' = IF r.exc = "none" THEN completed + 1 ELSE completed
    /\ out' = [exc |-> r.exc, val |-> None]
    /\ UNCHANGED <<dataset, pc, batch_size, rows, results, i, tasks, session,
                   det, memo, fn, arg, pipeVars, ontoVars>>

\* A collection of one record: fresh from the initializer in either format,
\* annotated by the first two stages, or not written by the initializer.
InitRuns ==
    /\ stage = "observer"
    /\ dataset \in PipeDatasets
    /\ \E n \in 1..2 : file = <<PipeRecord(dataset, n)>>
    /\ runs = 0
    /\ pc = "idle"
    /\ batch_size = 1
    /\ rows = <<>>
    /\ results = <<>>
    /\ i = 1
    /\ tasks = <<>>
    /\ session = "none"
    /\ pre = <<>>
    /\ called = {}
    /\ sat = {}
    /\ completed = 0
    /\ det = FALSE
    /\ memo = EmptyDict
    /\ fn = "run_pass"
    /\ arg = NoArg
    /\ out = NoCall
    /\ PipeAtRest
    /\ OntoAtRest

NextRuns ==
    \E cls \in Stages : \E outcomes \in [DOMAIN file -> Outcomes(cls)] :
        StageRun(cls, run_file(cls, file, outcomes, 1))

SpecRuns == InitRuns /\ [][NextRuns]_vars

\* The records of the collection that have the id.
WithId(rws, id) == {k \in DOMAIN rws : rws[k].m["id"] = id}

\* C30: a record that a stage found already satisfied before some run is in
\* the collection after every later run of any stage, whatever the replies,
\* and the stage still finds it already satisfied.
C30SatisfactionIsStable ==
    \A pair \in sat \cup SatisfiedPairs(pre) :
        /\ WithId(file, pair[1]) # {}
        /\ \A k \in WithId(file, pair[1]) :
              _is_already_processed(pair[2], file[k]) = Ret(Bool(TRUE))

\* The third run: the critic merges a reply into a record that the observer
\* and the empathizer found satisfied before it, and they still do.
C30Witness ==
    /\ runs = MaxStageRuns
    /\ stage = "critic"
    /\ called = {1}
    /\ file # pre
    /\ <<file[1].m["id"], "observer">> \in sat
    /\ <<file[1].m["id"], "empathizer">> \in sat
    /\ _is_already_processed("observer", file[1]) = Ret(Bool(TRUE))
    /\ _is_already_processed("empathizer", file[1]) = Ret(Bool(TRUE))
    /\ dataset = "fresh"

-----------------------------------------------------------------------------
(* Termination of process_batch *)

\* What the event loop and the external calls guarantee: a coroutine that
\* can run is run (the loop over the slices, gather, the way out), and every
\* request that is waiting comes back, with a reply, a failure or the
\* time-out of _call_llm.  Nothing obliges a caller to start a run.
Fairness ==
    /\ WF_vars(BuildSlice)
    /\ WF_vars(GatherDone)
    /\ WF_vars(Propagate)
    /\ WF_vars(Return)
    /\ \A t \in 1..MaxBatch :
          WF_vars(\E outcome \in Outcomes(stage) : Complete(t, outcome))

\* The collections of one run: those of Datasets, and one whose second
\* record every stage has annotated already.
LiveFile(cls, data) ==
    IF data = "mixed"
    THEN <<create_record_pair(1), AnnotatedBy(create_record_redteam(2), "none", 1)>>
    ELSE InitialFile(cls, data)

InitLive ==
    /\ stage \in Stages
    /\ dataset \in Datasets \cup {"mixed"}
    /\ file = LiveFile(stage, dataset)
    /\ runs = 0
    /\ pc = "idle"
    /\ batch_size = 1
    /\ rows = <<>>
    /\ results = <<>>
    /\ i = 1
    /\ tasks = <<>>
    /\ session = "none"
    /\ pre = <<>>
    /\ called = {}
    /\ sat = {}
    /\ completed = 0
    /\ det = FALSE
    /\ memo = EmptyDict
    /\ fn = "none"
    /\ arg = NoArg
    /\ out = NoCall
    /\ PipeAtRest
    /\ OntoAtRest

\* One run of run_file from its start to its end.
NextLive ==
    \/ \E size \in 1..MaxBatch : runs = 0 /\ StartRun(size)
    \/ BuildSlice
    \/ \E t \in 1..MaxBatch : \E outcome \in Outcomes(stage) : Complete(t, outcome)
    \/ GatherDone
    \/ Propagate
    \/ Return
    \/ WriteOutput
    \/ Abort

SpecLive == InitLive /\ [][NextLive]_vars /\ Fairness

\* process_batch is running its slices.
InProcessBatch == pc \in {"slice", "gather"}

\* process_batch has been left, by its return or by an exception.
LeftProcessBatch == pc \in {"returned", "raised"}

\* C31: whatever the collection and the batch size, a process_batch whose
\* requests all come back is left after finitely many steps; the loop moves
\* on by batch_size rows, and only once every task of the slice is joined;
\* when it returns, the collection is exhausted and every row is in results.
C31ProcessBatchTerminates ==
    /\ InProcessBatch ~> LeftProcessBatch
    /\ [][(InProcessBatch /\ i' # i)
              => /\ i' = i + batch_size
                 /\ \A t \in DOMAIN tasks : tasks[t].state = "done"]_vars
    /\ [](pc = "returned" => (i > Len(rows) /\ Len(results) = Len(rows)))

\* The return after two slices of one row each: the request of the first
\* answered, the second skipped.
C31Witness ==
    /\ pc = "returned"
    /\ batch_size = 1
    /\ i = Len(rows) + 1
    /\ called = {1}
    /\ sat = {2}
    /\ Len(results) = 2
=============================================================================
